---- MODULE Spec2Model ----
(***************************************************************************)
(* State-machine model of the Google-Takeout media backup pipeline         *)
(* (MediaBackupProject/scripts): Pass 1 (1-extract-json.py), Pass 2        *)
(* (2-process-media.py, process_media_workflow.py) and the recovery helper *)
(* (process_media_recovery.py).                                            *)
(*                                                                         *)
(* Modelling conventions                                                   *)
(*  - a timestamp is a number of Unix seconds; a naive embedded datetime   *)
(*    is represented by the Unix seconds of the same wall-clock reading;   *)
(*  - an optional value is a record [k |-> kind, v |-> payload];           *)
(*  - paths and names are strings, compared in code-point order;           *)
(*  - a single filesystem call (move, copy2, append of one line, rmtree)   *)
(*    is one atomic step; a process kill can fall between any two.         *)
(***************************************************************************)
EXTENDS Integers, Sequences, FiniteSets, TLC

(***************************************************************************)
(* Program constants                                                       *)
(***************************************************************************)
min_timestamp == 0
max_timestamp == 1893456000
MAX_PATH_LENGTH == 240

\* Capture times used by the workflow tests.
TsEmbedded == 1589132340
TsPrimary == 1622505600
TsSupplemental == 1549166706

(***************************************************************************)
(* Optional values                                                         *)
(***************************************************************************)
NoneVal == [k |-> "none", v |-> 0]
IntVal(n) == [k |-> "int", v |-> n]
StrVal(n) == [k |-> "str", v |-> n]
BadStr == [k |-> "bad", v |-> 0]
RaiseVal == [k |-> "raise", v |-> 0]

\* Python truthiness of a JSON scalar: None, 0 and "" are falsy; the string
\* "0" and any other non-empty string are truthy.
Falsy(x) == x.k = "none" \/ (x.k = "int" /\ x.v = 0)

(***************************************************************************)
(* process_media_json.get_timestamp_from_json                              *)
(* A sidecar is [shape, ptt, ct]: shape "dict" (a JSON object), "list"     *)
(* (valid JSON that is no object) or "invalid" (not JSON); ptt and ct are  *)
(* photoTakenTime.timestamp and creationTime.timestamp.                    *)
(* The result is NoneVal, IntVal(n) or RaiseVal (an exception that the     *)
(* function's except clause does not catch).                               *)
(***************************************************************************)
get_timestamp_from_json(c) ==
    IF c.shape = "invalid" THEN NoneVal            \* json.JSONDecodeError
    ELSE IF c.shape = "list" THEN RaiseVal         \* AttributeError on .get
    ELSE LET timestamp == IF Falsy(c.ptt) THEN c.ct ELSE c.ptt
         IN  IF Falsy(timestamp) THEN NoneVal
             ELSE IF timestamp.k = "bad" THEN NoneVal   \* int() ValueError
             ELSE IntVal(timestamp.v)

\* The warning get_timestamp_from_json prints for the value it returns.
timestamp_warning(n) ==
    IF n < min_timestamp THEN "before"
    ELSE IF n > max_timestamp THEN "after"
    ELSE "none"

(***************************************************************************)
(* process_media_workflow.pick_timestamp_from_json_list                    *)
(* paths: the sidecars in sorted order (a sequence of names);              *)
(* content: name -> sidecar.                                               *)
(***************************************************************************)
RECURSIVE pick_timestamp_from_json_list(_, _)
pick_timestamp_from_json_list(paths, content) ==
    IF paths = <<>> THEN NoneVal
    ELSE LET ts == get_timestamp_from_json(content[Head(paths)])
         IN  IF ts.k = "raise" THEN RaiseVal
             ELSE IF ts.k = "int" /\ ts.v # 0 THEN ts        \* if ts:
             ELSE pick_timestamp_from_json_list(Tail(paths), content)

(***************************************************************************)
(* Timestamp precedence of process_media_files (lines 141-157).            *)
(* embedded: NoneVal or IntVal; the result is [date, source] with source   *)
(* "embedded", "primary_json", "supplemental", "none" (no usable           *)
(* timestamp) or "error" (an exception left the resolution).               *)
(***************************************************************************)
Resolved(d, s) == [date |-> d, source |-> s]

\* A resolution that asks the primary sidecars before the embedded metadata.
ResolveTimestamp_SidecarFirst(embedded, primary_jsons, supplemental_jsons, content) ==
    LET primary_ts == pick_timestamp_from_json_list(primary_jsons, content)
    IN  IF primary_ts.k = "raise" THEN Resolved(0, "error")
        ELSE IF primary_ts.k = "int" THEN Resolved(primary_ts.v, "primary_json")
        ELSE IF embedded.k = "int" THEN Resolved(embedded.v, "embedded")
        ELSE LET supplemental_ts ==
                     pick_timestamp_from_json_list(supplemental_jsons, content)
             IN  IF supplemental_ts.k = "raise" THEN Resolved(0, "error")
                 ELSE IF supplemental_ts.k = "int"
                      THEN Resolved(supplemental_ts.v, "supplemental")
                      ELSE Resolved(0, "none")

ResolveTimestamp(embedded, primary_jsons, supplemental_jsons, content) ==
    IF embedded.k = "int" THEN Resolved(embedded.v, "embedded")
    ELSE LET primary_ts == pick_timestamp_from_json_list(primary_jsons, content)
         IN  IF primary_ts.k = "raise" THEN Resolved(0, "error")
             ELSE IF primary_ts.k = "int" THEN Resolved(primary_ts.v, "primary_json")
             ELSE LET supplemental_ts ==
                          pick_timestamp_from_json_list(supplemental_jsons, content)
                  IN  IF supplemental_ts.k = "raise" THEN Resolved(0, "error")
                      ELSE IF supplemental_ts.k = "int"
                           THEN Resolved(supplemental_ts.v, "supplemental")
                           ELSE Resolved(0, "none")

(***************************************************************************)
(* Strings: Python's str operations used by the scripts                    *)
(***************************************************************************)
\* The printable ASCII characters used in file names, in code-point order.
Ascii == " !#$%&'()*+,-./0123456789:;<=>?@ABCDEFGHIJKLMNOPQRSTUVWXYZ[]^_abcdefghijklmnopqrstuvwxyz{|}~"
UpperCase == "ABCDEFGHIJKLMNOPQRSTUVWXYZ"
LowerCase == "abcdefghijklmnopqrstuvwxyz"

CharAt(s, i) == SubSeq(s, i, i)
IndexIn(alphabet, c) ==
    IF \E i \in 1..Len(alphabet) : CharAt(alphabet, i) = c
    THEN CHOOSE i \in 1..Len(alphabet) : CharAt(alphabet, i) = c
    ELSE 0
\* ord(c), tabulated (0 for a character outside Ascii)
OrdTable == [c \in {CharAt(Ascii, i) : i \in 1..Len(Ascii)} |-> IndexIn(Ascii, c)]
Ord(c) == IF c \in DOMAIN OrdTable THEN OrdTable[c] ELSE 0

\* str.lower(), character by character through a table
LowerTable ==
    [c \in {CharAt(UpperCase, i) : i \in 1..Len(UpperCase)} |->
        CharAt(LowerCase, IndexIn(UpperCase, c))]
LowerChar(c) == IF c \in DOMAIN LowerTable THEN LowerTable[c] ELSE c
RECURSIVE Lower(_)
Lower(s) ==
    IF Len(s) = 0 THEN ""
    ELSE IF Len(s) = 1 THEN LowerChar(s)
    ELSE LET h == Len(s) \div 2
         IN  Lower(SubSeq(s, 1, h)) \o Lower(SubSeq(s, h + 1, Len(s)))

\* a < b for Python strings (code-point order, a proper prefix is smaller)
StrLess(a, b) ==
    LET n == IF Len(a) < Len(b) THEN Len(a) ELSE Len(b)
        diff == {i \in 1..n : CharAt(a, i) # CharAt(b, i)}
    IN  IF diff = {} THEN Len(a) < Len(b)
        ELSE LET i == CHOOSE k \in diff : \A j \in diff : k <= j
             IN  Ord(CharAt(a, i)) < Ord(CharAt(b, i))

\* sorted(S) for a finite set of strings
RECURSIVE Sorted(_)
Sorted(S) ==
    IF S = {} THEN <<>>
    ELSE LET m == CHOOSE x \in S : \A y \in S \ {x} : StrLess(x, y)
         IN  <<m>> \o Sorted(S \ {m})

\* sorted(S, key=str.lower)
RECURSIVE SortedByLower(_)
SortedByLower(S) ==
    IF S = {} THEN <<>>
    ELSE LET m == CHOOSE x \in S :
                      \A y \in S \ {x} : ~StrLess(Lower(y), Lower(x))
         IN  <<m>> \o SortedByLower(S \ {m})

EndsWith(s, suf) ==
    Len(s) >= Len(suf) /\ SubSeq(s, Len(s) - Len(suf) + 1, Len(s)) = suf
\* s.lower().endswith(suf), for a lower-case suf: only the tail is folded
LowerEndsWith(s, suf) ==
    Len(s) >= Len(suf) /\ Lower(SubSeq(s, Len(s) - Len(suf) + 1, Len(s))) = suf
Contains(s, sub) ==
    \E i \in 1..(Len(s) - Len(sub) + 1) : SubSeq(s, i, i + Len(sub) - 1) = sub
\* the last position of character c in s, 0 when absent (str.rfind + 1)
LastIndexOf(s, c) ==
    IF \E i \in 1..Len(s) : CharAt(s, i) = c
    THEN CHOOSE i \in 1..Len(s) :
             CharAt(s, i) = c /\ \A j \in (i + 1)..Len(s) : CharAt(s, j) # c
    ELSE 0

\* os.path.basename, os.path.dirname ("/" separated paths)
basename(path) == SubSeq(path, LastIndexOf(path, "/") + 1, Len(path))
\* os.path.splitext on a basename: the extension starts at the last dot,
\* unless that dot only follows leading dots.
SplitIndex(name) ==
    LET i == LastIndexOf(name, ".")
    IN  IF i = 0 \/ \A j \in 1..(i - 1) : CharAt(name, j) = "." THEN Len(name) + 1 ELSE i
splitext_root(name) == SubSeq(name, 1, SplitIndex(name) - 1)
splitext_ext(name) == SubSeq(name, SplitIndex(name), Len(name))

(***************************************************************************)
(* Calendar: datetime.fromtimestamp(ts, timezone.utc) and strftime         *)
(***************************************************************************)
\* The proleptic Gregorian (year, month) of a number of Unix seconds.
CivilFromSeconds(ts) ==
    LET z == (ts \div 86400) + 719468
        era == z \div 146097
        doe == z - era * 146097
        yoe == (doe - doe \div 1460 + doe \div 36524 - doe \div 146096) \div 365
        doy == doe - (365 * yoe + yoe \div 4 - yoe \div 100)
        mp == (5 * doy + 2) \div 153
        m == IF mp < 10 THEN mp + 3 ELSE mp - 9
        y == yoe + era * 400 + (IF m <= 2 THEN 1 ELSE 0)
    IN  [year |-> y, month |-> m]
\* date.strftime("%Y") and date.strftime("%m")
strftime_Y(ts) == ToString(CivilFromSeconds(ts).year)
strftime_m(ts) ==
    LET m == CivilFromSeconds(ts).month
    IN  IF m < 10 THEN "0" \o ToString(m) ELSE ToString(m)

(***************************************************************************)
(* Configuration (process_media_config.build_config)                       *)
(***************************************************************************)
final_library_dir == "Z:/Family Pictures and Videos"
needs_review_dir == final_library_dir \o "/__NEEDS_REVIEW__"
orphan_media_dir == needs_review_dir \o "/unmatched-media"
path_too_long_dir == needs_review_dir \o "/path-too-long"
join(dir, name) == dir \o "/" \o name
project_root == "P:/MediaBackupProject"
takeout_archives_dir == project_root \o "/takeout-archives"
extract_target_dir == project_root \o "/workbench/Takeout"

\* process_media_paths.validate_path_length: (is_valid, path_length)
validate_path_length(path, max_length) ==
    [is_valid |-> Len(path) < max_length, path_length |-> Len(path)]

\* process_media_logs.normalize_archive_key (os.path.normcase on Windows)
normalize_archive_key(name) == "archive:" \o Lower(name)

(***************************************************************************)
(* process_media_suffix / process_media_matching                           *)
(***************************************************************************)
\* "\d" of the regular expressions, on the ASCII names of the model
IsDigit(c) == c \in {"0", "1", "2", "3", "4", "5", "6", "7", "8", "9"}
\* The regular expression "\((\d{1,max_digits})\)" anchored to end at
\* position e of s: the position of its "(", or 0 when it does not match.
GroupStartOf(s, e, K) ==
    IF K = {} THEN 0 ELSE e - (CHOOSE k \in K : TRUE) - 1
GroupStart(s, e, max_digits) ==
    IF e < 3 \/ e > Len(s) THEN 0
    ELSE IF CharAt(s, e) # ")" THEN 0
    ELSE GroupStartOf(s, e, {k \in 1..max_digits :
                                /\ e - k - 1 >= 1
                                /\ CharAt(s, e - k - 1) = "("
                                /\ \A i \in (e - k)..(e - 1) : IsDigit(CharAt(s, i))})

\* r"^(.+)\((\d{1,3})\)(\.[^.]+)$": the position of "(" when the group
\* stands right before the last extension and a name precedes it, else 0
SuffixBeforeExt(s, dot) ==
    IF dot >= 2 /\ dot < Len(s) /\ GroupStart(s, dot - 1, 3) >= 2
    THEN GroupStart(s, dot - 1, 3) ELSE 0
\* r"^(.+\.[^.]+)\((\d{1,3})\)$": the position of "(" when the group ends
\* the name and what precedes it is a name with an extension, else 0
HasExtension(base, dot) == dot >= 2 /\ dot < Len(base)
SuffixAfterExt(s, p) ==
    IF p >= 2 /\ HasExtension(SubSeq(s, 1, p - 1), LastIndexOf(SubSeq(s, 1, p - 1), "."))
    THEN p ELSE 0

\* extract_strict_media_suffix: "(N)", or "" for None
\* A group of up to four digits before the extension counts as a suffix.
StrictBefore_FourDigits(filename) ==
    IF /\ LastIndexOf(filename, ".") >= 2
       /\ LastIndexOf(filename, ".") < Len(filename)
       /\ GroupStart(filename, LastIndexOf(filename, ".") - 1, 4) >= 2
    THEN GroupStart(filename, LastIndexOf(filename, ".") - 1, 4) ELSE 0
StrictBefore(filename) == SuffixBeforeExt(filename, LastIndexOf(filename, "."))
StrictAfter(filename) == SuffixAfterExt(filename, GroupStart(filename, Len(filename), 3))
extract_strict_media_suffix(filename) ==
    IF StrictBefore(filename) > 0
    THEN SubSeq(filename, StrictBefore(filename), LastIndexOf(filename, ".") - 1)
    ELSE IF StrictAfter(filename) > 0
    THEN SubSeq(filename, StrictAfter(filename), Len(filename))
    ELSE ""

\* split_media_suffix: (base_without_suffix, suffix, suffix_after_ext,
\* suffix_before_ext), with "" for None
SplitBefore(filename, p, dot) ==
    [base_without_suffix |-> SubSeq(filename, 1, p - 1) \o SubSeq(filename, dot, Len(filename)),
     suffix |-> SubSeq(filename, p, dot - 1),
     suffix_after_ext |-> SubSeq(filename, 1, p - 1) \o SubSeq(filename, dot, Len(filename))
                              \o SubSeq(filename, p, dot - 1),
     suffix_before_ext |-> filename]
SplitAfter(filename, base, suffix) ==
    [base_without_suffix |-> base,
     suffix |-> suffix,
     suffix_after_ext |-> filename,
     suffix_before_ext |-> splitext_root(base) \o suffix \o splitext_ext(base)]
split_media_suffix(filename) ==
    IF StrictBefore(filename) > 0
    THEN SplitBefore(filename, StrictBefore(filename), LastIndexOf(filename, "."))
    ELSE IF StrictAfter(filename) > 0
    THEN SplitAfter(filename, SubSeq(filename, 1, StrictAfter(filename) - 1),
                    SubSeq(filename, StrictAfter(filename), Len(filename)))
    ELSE [base_without_suffix |-> filename, suffix |-> "",
          suffix_after_ext |-> "", suffix_before_ext |-> ""]

\* with_extension_variants
with_extension_variants(filename) ==
    LET name == splitext_root(filename)
        ext == Lower(splitext_ext(filename))
    IN  {filename} \cup (IF ext = ".jpg" THEN {name \o ".jpeg"}
                         ELSE IF ext = ".jpeg" THEN {name \o ".jpg"} ELSE {})

\* Only the media name as written: the other placement of the suffix is
\* not tried.
VariantsWithExt_OwnNameOnly(media_filename, sp) ==
    with_extension_variants(media_filename)
\* generate_json_candidates_for_media, lines 140-148: the variants of the
\* media name and their jpg/jpeg twins
VariantsWithExt(media_filename, sp) ==
    UNION {with_extension_variants(v) :
           v \in {media_filename}
                 \cup (IF sp.suffix # "" /\ sp.suffix_after_ext # "" /\ sp.suffix_before_ext # ""
                       THEN {sp.suffix_after_ext, sp.suffix_before_ext} ELSE {})}
\* Candidates that also guess a first duplicate "(1)" for every variant.
CandidatesOf_GuessesSuffix(sp, variants_with_ext) ==
    {v \o t : v \in variants_with_ext,
              t \in {".json", "(1).json", ".supplemental-metadata.json", ".sup.json"}}
\* lines 150-173: the candidate names, as a set
CandidatesOf(sp, variants_with_ext) ==
    {v \o ".json" : v \in variants_with_ext}
    \cup (IF sp.suffix # ""
          THEN UNION {{b \o ".supplemental-metadata" \o sp.suffix \o ".json",
                       b \o ".sup" \o sp.suffix \o ".json"} :
                      b \in with_extension_variants(sp.base_without_suffix)}
               \cup UNION {{v \o ".supplemental-metadata.json",
                            v \o ".supplemental-metadata" \o sp.suffix \o ".json",
                            v \o ".sup.json",
                            v \o ".sup" \o sp.suffix \o ".json"} :
                           v \in variants_with_ext}
          ELSE UNION {{v \o ".supplemental-metadata.json", v \o ".sup.json"} :
                      v \in variants_with_ext})
CandidateSet(media_filename) ==
    CandidatesOf(split_media_suffix(media_filename),
                 VariantsWithExt(media_filename, split_media_suffix(media_filename)))
\* line 175: sorted(candidates)
generate_json_candidates_for_media(media_filename) ==
    Sorted(CandidateSet(media_filename))

\* is_supplemental_json_name: ".supplemental-metadata" anywhere, or a tail
\* r"\.sup(\(\d+\))?\.json$", both without regard to case
SupTail(filename, p) ==
    p >= 5 /\ Lower(SubSeq(filename, p - 4, p - 1)) = ".sup"
\* Only ".supplemental-metadata" marks a supplemental sidecar.
is_supplemental_json_name_MetadataOnly(filename) ==
    Contains(Lower(filename), ".supplemental-metadata")
is_supplemental_json_name(filename) ==
    \/ Contains(Lower(filename), ".supplemental-metadata")
    \/ LowerEndsWith(filename, ".sup.json")
    \/ /\ LowerEndsWith(filename, ").json")
       /\ SupTail(filename, GroupStart(filename, Len(filename) - 5, Len(filename)))

\* process_media_json_lookup.build_json_lookup: lower-cased name -> name
build_json_lookup(names) ==
    [k \in {Lower(n) : n \in {m \in names : LowerEndsWith(m, ".json")}} |->
        CHOOSE n \in names : Lower(n) = k]

\* match_json_for_media, lines 26-33: the hits among the candidates from
\* position i on, in the order of the candidates
RECURSIVE MatchFrom(_, _, _, _)
MatchFrom(candidates, i, json_lookup, supp) ==
    IF i > Len(candidates) THEN <<>>
    ELSE (IF /\ Lower(candidates[i]) \in DOMAIN json_lookup
             /\ is_supplemental_json_name(candidates[i]) = supp
          THEN <<json_lookup[Lower(candidates[i])]>> ELSE <<>>)
         \o MatchFrom(candidates, i + 1, json_lookup, supp)
\* match_json_for_media: (primary, supplemental), two lists of repository
\* file names
match_json_for_media(media_filename, json_lookup) ==
    [primary |-> MatchFrom(generate_json_candidates_for_media(media_filename), 1,
                           json_lookup, FALSE),
     supplemental |-> MatchFrom(generate_json_candidates_for_media(media_filename), 1,
                                json_lookup, TRUE)]
\* The two lists as sets: the callers sort them or copy each file once.
MatchedSets(m) ==
    [primary |-> {m.primary[i] : i \in 1..Len(m.primary)},
     supplemental |-> {m.supplemental[i] : i \in 1..Len(m.supplemental)}]

(***************************************************************************)
(* process_media_json.get_valid_gps_from_supplemental                      *)
(* A GPS block is NoneVal (absent or empty) or Geo(lat, lon, alt), the     *)
(* coordinates in units of 0.00001 degree.                                 *)
(***************************************************************************)
Geo(lat, lon, alt) == [k |-> "geo", v |-> <<lat, lon, alt>>]
Abs(n) == IF n < 0 THEN -n ELSE n
\* A block is refused as soon as one axis is inside the band.
gps_is_valid_EitherAxis(g) == ~(Abs(g.v[1]) < 10 \/ Abs(g.v[2]) < 10)
\* not (abs(lat) < 0.0001 and abs(lon) < 0.0001)
gps_is_valid(g) == ~(Abs(g.v[1]) < 10 /\ Abs(g.v[2]) < 10)

\* A GPS block that is no JSON object (a string, a list, a number), and a
\* block with a coordinate too large for float(): reading the first raises
\* AttributeError on .get, converting the second raises OverflowError.
NonObject == [k |-> "nonobject", v |-> 0]
Overflowing == [k |-> "overflow", v |-> 0]

\* One block of lines 69-82 (geoDataExif) or 85-97 (geoData): the coordinate
\* it returns, NoneVal when the block is empty, fails the conversion with
\* ValueError or TypeError, or is refused; RaiseVal for an exception that
\* the inner except clause does not catch.
gps_from_block(b) ==
    IF b.k = "none" THEN NoneVal
    ELSE IF b.k \in {"nonobject", "overflow"} THEN RaiseVal
    ELSE IF b.k # "geo" THEN NoneVal
    ELSE IF gps_is_valid(b) THEN b
    ELSE NoneVal

get_valid_gps_from_supplemental(c) ==
    IF c.shape # "dict" THEN NoneVal               \* except Exception
    ELSE IF gps_from_block(c.geoDataExif).k = "raise" THEN NoneVal
    ELSE IF gps_from_block(c.geoDataExif).k = "geo" THEN c.geoDataExif
    ELSE IF gps_from_block(c.geoData).k = "geo" THEN c.geoData
    ELSE NoneVal

\* process_media_workflow.pick_gps_from_json_list
RECURSIVE pick_gps_from_json_list(_, _)
pick_gps_from_json_list(paths, content) ==
    IF paths = <<>> THEN NoneVal
    ELSE LET gps == get_valid_gps_from_supplemental(content[Head(paths)])
         IN  IF gps.k = "geo" THEN gps
             ELSE pick_gps_from_json_list(Tail(paths), content)

(***************************************************************************)
(* The dataset: the archives of takeout-archives, the media files they     *)
(* hold, what the metadata reader finds in each, and the sidecars of the   *)
(* JSON repository.                                                        *)
(***************************************************************************)
LongStem == "LONG_0123456789_0123456789_0123456789_0123456789_0123456789_0123456789_0123456789_0123456789_012345"

\* Every file of takeout-archives: two archives and two standalone media
\* files, one of them with a long name.
ArchiveFiles == {"a.zip", "b.zip", "LOOSE.jpg", LongStem \o ".jpg"}

\* The media members of an archive, as paths below the extraction directory.
ZipMembers(a) ==
    CASE a = "a.zip" -> {"Album/IMG_1.jpg", "Photos/IMG_1.jpg", "Photos/IMG_3.jpg"}
      [] a = "b.zip" -> {"Album/IMG_3.jpg", "Album/" \o LongStem \o ".jpg",
                         "Photos/BAD.jpg", "Photos/IMG_1.jpg",
                         "Photos/IMG_2.HEIC", "Photos/" \o LongStem \o ".jpg"}
      [] OTHER -> {}

\* A media file is the member `path` of archive `arch`.
MediaFile(a, p) == [arch |-> a, path |-> p]
AllMedia == {MediaFile(a, p) : a \in ArchiveFiles, p \in UNION {ZipMembers(b) : b \in ArchiveFiles}}
ArchiveMedia == {f \in AllMedia : f.path \in ZipMembers(f.arch)}
NoMedia == MediaFile("", "")

\* What get_exif_datetime reads in the file (DateTimeOriginal etc.).
EmbeddedDateTime(f) ==
    IF \/ f.arch = "a.zip" /\ f.path \in {"Album/IMG_1.jpg", "Photos/IMG_1.jpg"}
       \/ f.arch = "takeout-archives"
    THEN IntVal(TsEmbedded) ELSE NoneVal
\* What exiftool -FileTypeExtension reports for the content.
FileTypeExtension(f) == ".jpg"
\* process_media_exif.get_embedded_gps on what exiftool prints for
\* -GPSLatitude -GPSLongitude: NoneVal for fewer than two lines, BadStr for
\* text that is no number, Geo(lat, lon, 0) for two numbers; the result is
\* (has_gps, gps_valid).
get_embedded_gps(tags) ==
    IF tags.k = "none" THEN [has_gps |-> FALSE, gps_valid |-> FALSE]
    ELSE IF tags.k # "geo" THEN [has_gps |-> TRUE, gps_valid |-> FALSE]
    ELSE IF Abs(tags.v[1]) < 10 /\ Abs(tags.v[2]) < 10
    THEN [has_gps |-> TRUE, gps_valid |-> FALSE]
    ELSE [has_gps |-> TRUE, gps_valid |-> TRUE]
\* The sampled media files carry no GPS tags.
GpsTags(f) == NoneVal
\* What get_embedded_gps reads in the file: (has_gps, gps_valid).
EmbeddedGps(f) == get_embedded_gps(GpsTags(f))

Sidecar(shape, ptt, ct, exif, geo) ==
    [shape |-> shape, ptt |-> ptt, ct |-> ct, geoDataExif |-> exif, geoData |-> geo]
\* The JSON repository after Pass 1: file name -> parsed content.
JsonRepository ==
    [n \in {"IMG_1.jpg.json", "IMG_2.HEIC.json", "IMG_2.HEIC.supplemental-metadata.json",
            "IMG_3.jpg.json", "BAD.jpg.json", LongStem \o ".jpg.json"} |->
      CASE n = "IMG_1.jpg.json" -> Sidecar("dict", StrVal(TsPrimary), NoneVal, NoneVal, NoneVal)
        [] n = "IMG_2.HEIC.json" -> Sidecar("dict", NoneVal, NoneVal, NoneVal, NoneVal)
        [] n = "IMG_2.HEIC.supplemental-metadata.json" ->
               Sidecar("dict", StrVal(TsSupplemental), NoneVal, Geo(0, 0, 0), Geo(5150000, 0, 0))
        [] n = "IMG_3.jpg.json" -> Sidecar("dict", NoneVal, NoneVal, NoneVal, NoneVal)
        [] n = "BAD.jpg.json" -> Sidecar("list", NoneVal, NoneVal, NoneVal, NoneVal)
        [] OTHER -> Sidecar("dict", StrVal(TsPrimary), NoneVal, NoneVal, NoneVal)]

(***************************************************************************)
(* What process_media_files computes for one media file before it touches  *)
(* the disk (lines 130-180): the matched sidecars, the resolved timestamp, *)
(* the destination and its length check.                                   *)
(***************************************************************************)
\* lines 172-173: os.path.join(cfg.final_library_dir, year, month)
dest_root_of(date) == join(join(final_library_dir, strftime_Y(date)), strftime_m(date))
\* get_media_bundle_dir
get_media_bundle_dir(dest_root, media_filename) ==
    join(dest_root, splitext_root(basename(media_filename)))

\* lines 159 and 179-180: which branch the file takes
PlanPlaced(base_name, m, r, dest_dir, dest_media_path) ==
    [base_name |-> base_name,
     primary_jsons |-> m.primary,
     supplemental_jsons |-> m.supplemental,
     matched_jsons |-> m.primary \cup m.supplemental,
     timestamp_source |-> r.source,
     date |-> r.date,
     dest_dir |-> IF r.source \in {"error", "none"} THEN "" ELSE dest_dir,
     dest_media_path |-> IF r.source \in {"error", "none"} THEN "" ELSE dest_media_path,
     path_len |-> IF r.source \in {"error", "none"} THEN 0
                  ELSE validate_path_length(dest_media_path, MAX_PATH_LENGTH).path_length,
     outcome |-> IF r.source = "error" THEN "error"
                 ELSE IF r.source = "none" THEN "unresolved"
                 ELSE IF ~validate_path_length(dest_media_path, MAX_PATH_LENGTH).is_valid
                      THEN "too_long"
                 ELSE "dated"]

\* lines 172-174: dest_dir
dest_dir_of(media_file_path, date) ==
    get_media_bundle_dir(dest_root_of(date), media_file_path)
\* A destination that keeps the name the file has in the archive.
dest_media_path_of_KeepsName(media_file_path, real_ext, date) ==
    join(dest_dir_of(media_file_path, date), basename(media_file_path))
\* lines 175-177: dest_media_path = dest_dir/(src.stem + real_ext)
dest_media_path_of(media_file_path, real_ext, date) ==
    join(dest_dir_of(media_file_path, date),
         splitext_root(basename(media_file_path)) \o real_ext)

\* lines 172-177: dest_dir and dest_media_path of the file
PlanResolved(f, base_name, m, r) ==
    PlanPlaced(base_name, m, r,
               dest_dir_of(f.path, r.date),
               dest_media_path_of(f.path, FileTypeExtension(f), r.date))

\* lines 141-157: the timestamp resolution over the sorted sidecar lists
PlanMatched(f, base_name, m) ==
    PlanResolved(f, base_name, m,
                 ResolveTimestamp(EmbeddedDateTime(f), Sorted(m.primary),
                                  Sorted(m.supplemental), JsonRepository))

\* lines 130-132: base_name and the matched sidecars
FilePlan(f, json_lookup) ==
    PlanMatched(f, basename(f.path),
                MatchedSets(match_json_for_media(basename(f.path), json_lookup)))

\* The plan of every media file under the repository's lookup. The JSON
\* repository is fixed while Pass 2 runs, so the table is computed once.
JsonLookup == build_json_lookup(DOMAIN JsonRepository)
PlanTable == [f \in ArchiveMedia |-> FilePlan(f, JsonLookup)]
Plan(f) == PlanTable[f]

(***************************************************************************)
(* Bounds of the model                                                     *)
(***************************************************************************)
\* Pass-2 processes started in one behaviour.
MaxRuns == 2
\* Faults of the environment in one behaviour: a kill of the process, an
\* archive that cannot be read, a failing call of the metadata tool.
MaxFaults == 1

(***************************************************************************)
(* State                                                                   *)
(***************************************************************************)
VARIABLES
    archiveStore,           \* names of the files of takeout-archives
    workbench,              \* extraction directory: [src, files]
    library,                \* files below final_library_dir: set of [path, file]
    processed_log,          \* workbench/.processed_files.log: [exists, lines]
    work_items_log,         \* .processed_work_items_pass2.log: sequence of keys
    path_too_long_log,      \* .path_too_long_pass2.log: sequence of lines
    exiftool_failures_log,  \* .exiftool_failures_pass2.log: sequence of lines
    exif_writes,            \* metadata writes that succeeded: set of [path, tag, value]
    run,                    \* the running Pass-2 process (its local variables)
    runs,                   \* processes started so far
    faults,                 \* faults of the environment so far
    handled,                \* history: media files that reached a terminal state
    moves,                  \* history: how often each media file was moved out
    pass1,                  \* what Pass 1 keeps on disk (repository, conflicts, logs)
    probe                   \* argument and result of a function applied on its own

vars == <<archiveStore, workbench, library, processed_log, work_items_log,
          path_too_long_log, exiftool_failures_log, exif_writes, run, runs, faults,
          handled, moves, pass1, probe>>

\* What Pass 2 never touches.
aux == <<pass1, probe>>

disk == <<archiveStore, workbench, library, processed_log, work_items_log,
          path_too_long_log, exiftool_failures_log, exif_writes>>

\* No process is running.
Idle ==
    [pc |-> "idle", is_live_run |-> FALSE, clean_workbench |-> FALSE,
     multi |-> FALSE, queue |-> <<>>,
     processed_work_items |-> {}, processed_media_files |-> {},
     media_files |-> <<>>, idx |-> 0, errors_found |-> 0, log |-> {}]

EmptyWorkbench == [src |-> "", files |-> {}]
\* Before Pass 1 ran: empty repository and conflicts folder, no logs.
Pass1Start ==
    [json_repository |-> <<>>, json_conflicts |-> <<>>,
     processed_archives_log |-> <<>>, corrupt_archives_log |-> <<>>]
\* The JSON members of an archive: base name -> content. Both archives carry
\* an album file metadata.json, with different contents; the sidecars of
\* b.zip for IMG_1 and IMG_3 repeat those of a.zip.
ZipJsons(a) ==
    LET names ==
            CASE a = "a.zip" -> {"IMG_1.jpg.json", "IMG_3.jpg.json", "metadata.json"}
              [] a = "b.zip" -> (DOMAIN JsonRepository) \cup {"metadata.json"}
              [] OTHER -> {}
    IN  [n \in names |->
            IF n # "metadata.json" THEN JsonRepository[n]
            ELSE Sidecar("dict", NoneVal, IF a = "a.zip" THEN NoneVal ELSE StrVal(TsPrimary),
                         NoneVal, NoneVal)]

\* lines 83-107 for every JSON member of the archive: a new name goes to the
\* repository, an identical duplicate is dropped, a different version goes
\* to the conflicts folder as <stem>_<zip>.json
ExtractJsons(p, zip_filename) ==
    LET Z == ZipJsons(zip_filename)
        differs == {n \in DOMAIN Z \cap DOMAIN p.json_repository : Z[n] # p.json_repository[n]}
        conflict_filename(n) == splitext_root(n) \o "_" \o zip_filename \o ".json"
        conflict_names == {conflict_filename(n) : n \in differs}
    IN  [p EXCEPT
           !.json_repository =
               [n \in DOMAIN p.json_repository \cup DOMAIN Z |->
                   IF n \in DOMAIN p.json_repository THEN p.json_repository[n] ELSE Z[n]],
           !.json_conflicts =
               [c \in DOMAIN p.json_conflicts \cup conflict_names |->
                   IF c \in conflict_names
                   THEN Z[CHOOSE n \in differs : conflict_filename(n) = c]
                   ELSE p.json_conflicts[c]]]

\* lines 71-112: what Pass 1 keeps after it read one archive and logged it
Pass1Read(p, zip_filename) ==
    [ExtractJsons(p, zip_filename) EXCEPT
        !.processed_archives_log = Append(@, zip_filename)]
\* After a complete Pass 1 over the archives in the order of the listing.
Pass1Done == Pass1Read(Pass1Read(Pass1Start, "a.zip"), "b.zip")

\* No function is being probed.
NoProbe == [fn |-> "none"]
SeqToSet(q) == {q[i] : i \in 1..Len(q)}

Init ==
    /\ archiveStore = ArchiveFiles
    /\ workbench = EmptyWorkbench
    /\ library = {}
    /\ processed_log = [exists |-> FALSE, lines |-> <<>>]
    /\ work_items_log = <<>>
    /\ path_too_long_log = <<>>
    /\ exiftool_failures_log = <<>>
    /\ exif_writes = {}
    /\ run = Idle
    /\ runs = 0
    /\ faults = 0
    /\ handled = {}
    /\ moves = [f \in ArchiveMedia |-> 0]
    /\ pass1 = Pass1Done
    /\ probe = NoProbe

(***************************************************************************)
(* Filesystem helpers                                                      *)
(***************************************************************************)
\* Two spellings of one path: the file system does not tell the case of
\* letters apart.
SamePath(a, b) ==
    IF a = b THEN TRUE
    ELSE IF Len(a) # Len(b) THEN FALSE
    ELSE \A i \in 1..Len(a) :
             IF CharAt(a, Len(a) + 1 - i) = CharAt(b, Len(a) + 1 - i) THEN TRUE
             ELSE LowerChar(CharAt(a, Len(a) + 1 - i)) = LowerChar(CharAt(b, Len(a) + 1 - i))
\* An existence test that never finds the file.
exists_Never(path) == FALSE
\* os.path.exists for a path below final_library_dir
exists(path) == \E e \in library : SamePath(e.path, path)
\* A sidecar of the JSON repository, as the content of a copied file.
JsonFile(name) == [arch |-> "json-repository", path |-> name]

\* process_media_workflow.copy_jsons: the library after the call
copy_jsons(json_names, dest_dir) ==
    library \cup {[path |-> join(dest_dir, n), file |-> JsonFile(n)] :
                     n \in {m \in json_names : ~exists(join(dest_dir, m))}}

\* A ledger write that is lost.
log_processed_file_Dropped(file_path) == processed_log
\* process_media_logs.log_processed_file: the ledger file after the call
log_processed_file(file_path) ==
    [exists |-> TRUE, lines |-> Append(processed_log.lines, file_path)]

\* process_media_logs.get_processed_files_log
get_processed_files_log(log) == IF log.exists THEN SeqToSet(log.lines) ELSE {}

\* process_media_logs.get_processed_work_items (the older logs do not exist)
get_processed_work_items(log) == SeqToSet(log)

(***************************************************************************)
(* 2-process-media.py: start of a run (lines 157-234)                      *)
(***************************************************************************)
\* A selection that does not consult the work-item ledger.
select_work_items_IgnoreLedger(archive_name, force_extract, processed_work_items) ==
    IF archive_name # ""
    THEN IF archive_name \in archiveStore /\ LowerEndsWith(archive_name, ".zip")
         THEN [exit |-> FALSE, items |-> {archive_name}]
         ELSE [exit |-> TRUE, items |-> {}]
    ELSE LET zip_files == {z \in archiveStore : LowerEndsWith(z, ".zip")}
         IN  [exit |-> zip_files = {}, items |-> zip_files]

\* A selection that takes a named archive whether it is marked or not.
select_work_items_AlwaysForced(archive_name, force_extract, processed_work_items) ==
    IF archive_name # ""
    THEN IF archive_name \in archiveStore /\ LowerEndsWith(archive_name, ".zip")
         THEN [exit |-> FALSE, items |-> {archive_name}]
         ELSE [exit |-> TRUE, items |-> {}]
    ELSE LET zip_files_to_try ==
                 {z \in archiveStore : /\ LowerEndsWith(z, ".zip")
                                       /\ normalize_archive_key(z) \notin processed_work_items}
         IN  [exit |-> zip_files_to_try = {}, items |-> zip_files_to_try]
\* select_work_items: the names selected, or exit
select_work_items(archive_name, force_extract, processed_work_items) ==
    IF archive_name # ""
    THEN IF archive_name \notin archiveStore
         THEN [exit |-> TRUE, items |-> {}]
         ELSE IF LowerEndsWith(archive_name, ".zip")
         THEN IF normalize_archive_key(archive_name) \in processed_work_items
                 /\ ~force_extract
              THEN [exit |-> TRUE, items |-> {}]
              ELSE [exit |-> FALSE, items |-> {archive_name}]
         ELSE [exit |-> TRUE, items |-> {}]
    ELSE LET zip_files == {z \in archiveStore : LowerEndsWith(z, ".zip")}
             zip_files_to_try ==
                 {z \in zip_files : normalize_archive_key(z) \notin processed_work_items}
         IN  IF zip_files = {} \/ zip_files_to_try = {}
             THEN [exit |-> TRUE, items |-> {}]
             ELSE [exit |-> FALSE, items |-> zip_files_to_try]

\* lines 232-233, `if batch_size: work_items = work_items[:batch_size]`: a
\* batch size of 0 is as good as None (no limit), and a negative one cuts
\* that many items off the end of the list.
Batch(q, batch_size) ==
    IF batch_size = 0 THEN q
    ELSE IF batch_size > 0
    THEN (IF Len(q) > batch_size THEN SubSeq(q, 1, batch_size) ELSE q)
    ELSE (IF Len(q) + batch_size > 0 THEN SubSeq(q, 1, Len(q) + batch_size) ELSE <<>>)

\* The per-file ledger after the optional clearing of lines 216-222.
ClearedLog(archive_name, force_extract, clean_workbench) ==
    IF archive_name = "" /\ (force_extract \/ clean_workbench)
    THEN [exists |-> FALSE, lines |-> <<>>]
    ELSE processed_log

StartRun(is_live_run, batch_size, archive_name, force_extract, clean_workbench) ==
    /\ run.pc = "idle"
    /\ runs < MaxRuns
    /\ runs' = runs + 1
    /\ LET log == ClearedLog(archive_name, force_extract, clean_workbench)
           processed_work_items == get_processed_work_items(work_items_log)
           sel == select_work_items(archive_name, force_extract, processed_work_items)
           work_items == Batch(SortedByLower(sel.items), batch_size)
       IN  /\ processed_log' = log
           /\ run' = IF sel.exit
                     THEN Idle
                     ELSE [pc |-> IF work_items = <<>> THEN "end" ELSE "item",
                           is_live_run |-> is_live_run,
                           clean_workbench |-> clean_workbench,
                           multi |-> Len(work_items) > 1,
                           queue |-> work_items,
                           processed_work_items |-> processed_work_items,
                           processed_media_files |-> get_processed_files_log(log),
                           media_files |-> <<>>, idx |-> 0, errors_found |-> 0, log |-> {}]
    /\ UNCHANGED <<archiveStore, workbench, library, work_items_log,
                   path_too_long_log, exiftool_failures_log, exif_writes,
                   faults, handled, moves, aux>>

\* A status report that comes after the clearing of the per-file ledger.
StatusReport_AfterClearing(is_live_run, batch_size, archive_name, force_extract, clean_workbench) ==
    /\ run.pc = "idle"
    /\ runs < MaxRuns
    /\ runs' = runs + 1
    /\ processed_log' = ClearedLog(archive_name, force_extract, clean_workbench)
    /\ run' = [Idle EXCEPT !.log = {"status_report"}]
    /\ UNCHANGED <<archiveStore, workbench, library, work_items_log,
                   path_too_long_log, exiftool_failures_log, exif_writes,
                   faults, handled, moves, aux>>
\* lines 157-161, show_status: print_status_report reads the archives
\* directory, the two ledgers and the issue logs, prints, and run_pass2
\* returns; the other options are not looked at.
StatusReport(is_live_run, batch_size, archive_name, force_extract, clean_workbench) ==
    /\ run.pc = "idle"
    /\ runs < MaxRuns
    /\ runs' = runs + 1
    /\ run' = [Idle EXCEPT !.log = {"status_report"}]
    /\ UNCHANGED <<disk, faults, handled, moves, aux>>

\* What the sanity checks of lines 209-214 can miss.
SanityChecks == {"json_repository_dir", "takeout_archives_dir", "exiftool"}
\* Sanity checks that come after the clearing of the per-file ledger.
SanityExit_AfterClearing(missing, archive_name, force_extract, clean_workbench) ==
    /\ run.pc = "idle"
    /\ runs < MaxRuns
    /\ missing \in SanityChecks
    /\ runs' = runs + 1
    /\ processed_log' = ClearedLog(archive_name, force_extract, clean_workbench)
    /\ run' = [Idle EXCEPT !.log = {"fatal_exit"}]
    /\ UNCHANGED <<archiveStore, workbench, library, work_items_log,
                   path_too_long_log, exiftool_failures_log, exif_writes,
                   faults, handled, moves, aux>>
\* lines 209-214: the JSON repository or the archives directory is missing,
\* or neither exiftool.exe nor the perl script exists: sys.exit, before the
\* clearing of lines 216-222 and before anything is read or selected.
SanityExit(missing, archive_name, force_extract, clean_workbench) ==
    /\ run.pc = "idle"
    /\ runs < MaxRuns
    /\ missing \in SanityChecks
    /\ runs' = runs + 1
    /\ run' = [Idle EXCEPT !.log = {"fatal_exit"}]
    /\ UNCHANGED <<disk, faults, handled, moves, aux>>

(***************************************************************************)
(* 2-process-media.py: one archive of the run (lines 242-291)              *)
(***************************************************************************)
\* The archive in work and the media file in work.
CurArchive == Head(run.queue)
CurPath == run.media_files[run.idx]
CurFile == MediaFile(CurArchive, CurPath)

\* The run goes to its next work item, or to its end.
NextItem(r) ==
    [r EXCEPT !.queue = Tail(r.queue),
              !.pc = IF Tail(r.queue) = <<>> THEN "end" ELSE "item",
              !.media_files = <<>>, !.idx = 0, !.errors_found = 0, !.log = {}]

\* extract_archive_to_workbench(item_path, True) and list_media_files
ExtractArchive ==
    /\ run.pc = "item"
    /\ workbench' = [src |-> CurArchive, files |-> ZipMembers(CurArchive)]
    /\ run' = [run EXCEPT !.pc = "file",
                          !.media_files = Sorted(ZipMembers(CurArchive)),
                          !.idx = 1, !.errors_found = 0, !.log = {}]
    /\ UNCHANGED <<archiveStore, library, processed_log, work_items_log,
                   path_too_long_log, exiftool_failures_log, exif_writes,
                   runs, faults, handled, moves, aux>>

\* A failure handler that writes the completion entry all the same.
ExtractFails_Marks ==
    /\ run.pc = "item"
    /\ faults < MaxFaults
    /\ faults' = faults + 1
    /\ workbench' = EmptyWorkbench
    /\ work_items_log' = Append(work_items_log, normalize_archive_key(CurArchive))
    /\ run' = [NextItem(run) EXCEPT !.log = {"fatal"}]
    /\ UNCHANGED <<archiveStore, library, processed_log,
                   path_too_long_log, exiftool_failures_log, exif_writes,
                   runs, handled, moves, aux>>
\* The archive cannot be read (zipfile raises after the workbench was
\* emptied): the except clause of lines 277-278 logs the failure,
\* archive_completed stays False, nothing is marked or cleaned.
ExtractFails ==
    /\ run.pc = "item"
    /\ faults < MaxFaults
    /\ faults' = faults + 1
    /\ workbench' = EmptyWorkbench
    /\ run' = [NextItem(run) EXCEPT !.log = {"fatal"}]
    /\ UNCHANGED <<archiveStore, library, processed_log, work_items_log,
                   path_too_long_log, exiftool_failures_log, exif_writes,
                   runs, handled, moves, aux>>

(***************************************************************************)
(* process_media_workflow.process_media_files (lines 102-287), one media   *)
(* file at a time. Each filesystem or ledger call is a step of its own, so *)
(* that a kill can fall between any two of them.                           *)
(***************************************************************************)
AtFile == run.pc = "file" /\ run.idx <= Len(run.media_files)
Fresh == AtFile /\ CurPath \notin run.processed_media_files
\* `continue`, without and with processed_media_files.add(media_file_path)
Advance(r) == [r EXCEPT !.pc = "file", !.idx = r.idx + 1]
Done(r) == [Advance(r) EXCEPT !.processed_media_files = @ \cup {CurPath}]
\* An error handler that also puts the file into the processed set.
Errored_AlsoProcessed(r) == [Done(r) EXCEPT !.errors_found = @ + 1, !.log = {"error"}]
\* lines 281-285: except Exception: errors_found += 1; continue
Errored(r) == [Advance(r) EXCEPT !.errors_found = @ + 1, !.log = {"error"}]

\* shutil.move(media_file_path, dest): the library after the call. The call
\* itself does not look whether dest exists; it replaces what is there.
MovedInto(f, dest) ==
    {e \in library : ~SamePath(e.path, dest)} \cup {[path |-> dest, file |-> f]}

\* process_media_exif.normalize_media_extension on a file just moved to path:
\* the path the file has afterwards.
normalize_media_extension(path, f, lib) ==
    LET real_ext == FileTypeExtension(f)
        new_path == splitext_root(path) \o real_ext
    IN  IF Lower(splitext_ext(path)) = Lower(real_ext) THEN path
        ELSE IF \E e \in lib : SamePath(e.path, new_path) THEN path
        ELSE new_path

\* lines 126-128: the path is in the per-file ledger (or was handled earlier
\* in this run)
SkipProcessed ==
    /\ AtFile
    /\ CurPath \in run.processed_media_files
    /\ run' = [Advance(run) EXCEPT !.log = {}]
    /\ UNCHANGED <<disk, runs, faults, handled, moves, aux>>

\* lines 281-285: resolving the timestamp raised; the file is left alone
FileError ==
    /\ Fresh
    /\ Plan(CurFile).outcome = "error"
    /\ run' = Errored(run)
    /\ UNCHANGED <<disk, runs, faults, handled, moves, aux>>

\* the dry-run branches of lines 159-170, 179-194 and 267-279
DryRunFile ==
    /\ Fresh
    /\ ~run.is_live_run
    /\ Plan(CurFile).outcome # "error"
    /\ run' = [Done(run) EXCEPT !.log =
                  CASE Plan(CurFile).outcome = "unresolved" -> {"no_timestamp"}
                    [] Plan(CurFile).outcome = "too_long" -> {"too_long"}
                    [] OTHER -> {"dry_run"}]
    /\ UNCHANGED <<disk, runs, faults, handled, moves, aux>>

\* The move of a diverted file, lines 163-166 and 185-188:
\*   if not os.path.exists(dest): shutil.move(media_file_path, dest)
DivertMove(dir, next_pc, message) ==
    LET dest == join(dir, Plan(CurFile).base_name)
    IN  /\ run' = [run EXCEPT !.pc = next_pc, !.log = {message}]
        /\ IF ~exists(dest)
           THEN /\ library' = MovedInto(CurFile, dest)
                /\ workbench' = [workbench EXCEPT !.files = @ \ {CurPath}]
                /\ moves' = [moves EXCEPT ![CurFile] = @ + 1]
           ELSE UNCHANGED <<library, workbench, moves>>
        /\ UNCHANGED <<archiveStore, processed_log, work_items_log, path_too_long_log,
                       exiftool_failures_log, exif_writes, runs, faults, handled, aux>>

\* copy_jsons(matched_jsons, dir)
CopyStep(pc, dir, next_pc) ==
    /\ run.pc = pc
    /\ library' = copy_jsons(Plan(CurFile).matched_jsons, dir)
    /\ run' = [run EXCEPT !.pc = next_pc]
    /\ UNCHANGED <<archiveStore, workbench, processed_log, work_items_log,
                   path_too_long_log, exiftool_failures_log, exif_writes,
                   runs, faults, handled, moves, aux>>

\* log_processed_file(media_file_path), processed_media_files.add, continue
LogStep(pc) ==
    /\ run.pc = pc
    /\ processed_log' = log_processed_file(CurPath)
    /\ handled' = handled \cup {CurFile}
    /\ run' = Done(run)
    /\ UNCHANGED <<archiveStore, workbench, library, work_items_log,
                   path_too_long_log, exiftool_failures_log, exif_writes,
                   runs, faults, moves, aux>>

\* lines 159-170, live run: no usable timestamp
OrphanMove ==
    /\ Fresh /\ run.is_live_run
    /\ Plan(CurFile).outcome = "unresolved"
    /\ DivertMove(orphan_media_dir, "orphan_moved", "no_timestamp")
OrphanCopy == CopyStep("orphan_moved", orphan_media_dir, "orphan_copied")
OrphanLog == LogStep("orphan_copied")

\* lines 179-194, live run: destination path too long
TooLongMove ==
    /\ Fresh /\ run.is_live_run
    /\ Plan(CurFile).outcome = "too_long"
    /\ DivertMove(path_too_long_dir, "long_moved", "too_long")
TooLongCopy == CopyStep("long_moved", path_too_long_dir, "long_copied")
\* log_path_too_long(media_file_path, dest_media_path, path_len)
TooLongLogPath ==
    /\ run.pc = "long_copied"
    /\ path_too_long_log' =
           Append(path_too_long_log,
                  [media |-> CurPath, dest |-> Plan(CurFile).dest_media_path,
                   path_len |-> Plan(CurFile).path_len])
    /\ run' = [run EXCEPT !.pc = "long_logged"]
    /\ UNCHANGED <<archiveStore, workbench, library, processed_log, work_items_log,
                   exiftool_failures_log, exif_writes, runs, faults, handled, moves, aux>>
TooLongLog == LogStep("long_logged")

\* lines 196-205, live run: the destination exists already
CollisionCopy ==
    /\ Fresh /\ run.is_live_run
    /\ Plan(CurFile).outcome = "dated"
    /\ exists(Plan(CurFile).dest_media_path)
    /\ library' = IF Plan(CurFile).matched_jsons # {}
                  THEN copy_jsons(Plan(CurFile).matched_jsons, Plan(CurFile).dest_dir)
                  ELSE library
    /\ run' = [run EXCEPT !.pc = "collided", !.log = {"collision"}]
    /\ UNCHANGED <<archiveStore, workbench, processed_log, work_items_log,
                   path_too_long_log, exiftool_failures_log, exif_writes,
                   runs, faults, handled, moves, aux>>
CollisionLog == LogStep("collided")

\* lines 206-210, live run: the move to the dated destination, and the
\* extension check on the moved file
CommitMove ==
    /\ Fresh /\ run.is_live_run
    /\ Plan(CurFile).outcome = "dated"
    /\ ~exists(Plan(CurFile).dest_media_path)
    /\ LET moved == MovedInto(CurFile, Plan(CurFile).dest_media_path)
           final == normalize_media_extension(Plan(CurFile).dest_media_path, CurFile, moved)
       IN  library' = {IF e.path = Plan(CurFile).dest_media_path /\ e.file = CurFile
                       THEN [e EXCEPT !.path = final] ELSE e : e \in moved}
    /\ workbench' = [workbench EXCEPT !.files = @ \ {CurPath}]
    /\ moves' = [moves EXCEPT ![CurFile] = @ + 1]
    /\ run' = [run EXCEPT !.pc = "moved", !.log = {}]
    /\ UNCHANGED <<archiveStore, processed_log, work_items_log, path_too_long_log,
                   exiftool_failures_log, exif_writes, runs, faults, handled, aux>>

\* lines 211 and 226: a timestamp write is issued for these sources only
StampsTimestamp(timestamp_source) == timestamp_source \in {"primary_json", "supplemental"}

\* lines 211-237: the timestamp write, for a sidecar timestamp only. The
\* metadata tool succeeds (ok) or raises.
CommitStamp(ok) ==
    /\ run.pc = "moved"
    /\ LET plan == Plan(CurFile)
           from_json == StampsTimestamp(plan.timestamp_source)
       IN  /\ ~from_json => ok
           /\ ~ok => faults < MaxFaults
           /\ faults' = IF ok THEN faults ELSE faults + 1
           /\ exif_writes' =
                  IF from_json /\ ok
                  THEN exif_writes \cup {[path |-> plan.dest_media_path,
                                          tag |-> "DateTimeOriginal", value |-> plan.date]}
                  ELSE exif_writes
           /\ exiftool_failures_log' =
                  IF from_json /\ ~ok
                  THEN Append(exiftool_failures_log,
                              [media |-> CurPath,
                               reason |-> IF plan.timestamp_source = "primary_json"
                                          THEN "primary_json" ELSE "supplemental_timestamp"])
                  ELSE exiftool_failures_log
    /\ run' = [run EXCEPT !.pc = "stamped"]
    /\ UNCHANGED <<archiveStore, workbench, library, processed_log, work_items_log,
                   path_too_long_log, runs, handled, moves, aux>>

\* line 239
CommitCopy ==
    /\ run.pc = "stamped"
    /\ library' = copy_jsons(Plan(CurFile).matched_jsons, Plan(CurFile).dest_dir)
    /\ run' = [run EXCEPT !.pc = "copied"]
    /\ UNCHANGED <<archiveStore, workbench, processed_log, work_items_log,
                   path_too_long_log, exiftool_failures_log, exif_writes,
                   runs, faults, handled, moves, aux>>

\* line 242 raises: shutil.copy2 fails on the first sidecar it has to copy
\* (copy_jsons, line 48); the exception ends the handling of the file at
\* lines 281-285, after the move.
CommitCopyFails ==
    /\ run.pc = "stamped"
    /\ \E n \in Plan(CurFile).matched_jsons : ~exists(join(Plan(CurFile).dest_dir, n))
    /\ faults < MaxFaults
    /\ faults' = faults + 1
    /\ run' = Errored(run)
    /\ UNCHANGED <<disk, runs, handled, moves, aux>>

\* A GPS write that does not look at the GPS the file carries.
gps_to_write_Overwrites(supplemental_jsons, embedded, content) ==
    pick_gps_from_json_list(Sorted(supplemental_jsons), content)
\* lines 246-250: the coordinate of the GPS write, or NoneVal when no write
\* is issued. embedded is the (has_gps, gps_valid) of get_embedded_gps.
gps_to_write(supplemental_jsons, embedded, content) ==
    IF supplemental_jsons # {} /\ (~embedded.has_gps \/ ~embedded.gps_valid)
    THEN pick_gps_from_json_list(Sorted(supplemental_jsons), content)
    ELSE NoneVal

\* The GPS the commit would write, lines 246-250, or NoneVal.
GpsToWrite(f) ==
    gps_to_write(Plan(f).supplemental_jsons, EmbeddedGps(f), JsonRepository)

\* lines 243-262: the GPS write from supplemental metadata
CommitGps(ok) ==
    /\ run.pc = "copied"
    /\ LET gps == GpsToWrite(CurFile)
       IN  /\ gps.k # "geo" => ok
           /\ ~ok => faults < MaxFaults
           /\ faults' = IF ok THEN faults ELSE faults + 1
           /\ exif_writes' =
                  IF gps.k = "geo" /\ ok
                  THEN exif_writes \cup {[path |-> Plan(CurFile).dest_media_path,
                                          tag |-> "GPS", value |-> gps]}
                  ELSE exif_writes
           /\ exiftool_failures_log' =
                  IF gps.k = "geo" /\ ~ok
                  THEN Append(exiftool_failures_log,
                              [media |-> CurPath, reason |-> "supplemental_gps"])
                  ELSE exiftool_failures_log
    /\ run' = [run EXCEPT !.pc = "gps_done"]
    /\ UNCHANGED <<archiveStore, workbench, library, processed_log, work_items_log,
                   path_too_long_log, runs, handled, moves, aux>>

\* A commit that leaves a file whose metadata write failed out of the ledger.
CommitLog_SkipsFailed ==
    IF \E i \in 1..Len(exiftool_failures_log) : exiftool_failures_log[i].media = CurPath
    THEN /\ run.pc = "gps_done"
         /\ run' = Advance(run)
         /\ UNCHANGED <<disk, runs, faults, handled, moves, aux>>
    ELSE LogStep("gps_done")
\* line 265
CommitLog == LogStep("gps_done")

(***************************************************************************)
(* 2-process-media.py: the end of an archive and of the run                *)
(***************************************************************************)
\* A completion entry that is written in a dry run too.
MarkArchive_AlsoDry ==
    /\ run.pc = "file"
    /\ run.idx > Len(run.media_files)
    /\ work_items_log' = Append(work_items_log, normalize_archive_key(CurArchive))
    /\ run' = [run EXCEPT !.pc = "clean"]
    /\ UNCHANGED <<archiveStore, workbench, library, processed_log,
                   path_too_long_log, exiftool_failures_log, exif_writes,
                   runs, faults, handled, moves, aux>>

\* A completion that leaves the ledger entry for later.
MarkArchive_Deferred ==
    /\ run.pc = "file"
    /\ run.idx > Len(run.media_files)
    /\ run' = [run EXCEPT !.pc = "clean"]
    /\ UNCHANGED <<disk, runs, faults, handled, moves, aux>>
\* lines 276-283: archive_completed = True; in a live run the archive key
\* is appended to the work-item ledger
MarkArchive ==
    /\ run.pc = "file"
    /\ run.idx > Len(run.media_files)
    /\ work_items_log' = IF run.is_live_run
                         THEN Append(work_items_log, normalize_archive_key(CurArchive))
                         ELSE work_items_log
    /\ run' = [run EXCEPT !.pc = "clean"]
    /\ UNCHANGED <<archiveStore, workbench, library, processed_log,
                   path_too_long_log, exiftool_failures_log, exif_writes,
                   runs, faults, handled, moves, aux>>

\* lines 285-289
CleanWorkbench ==
    /\ run.pc = "clean"
    /\ workbench' = IF run.clean_workbench \/ run.multi THEN EmptyWorkbench ELSE workbench
    /\ run' = NextItem(run)
    /\ UNCHANGED <<archiveStore, library, processed_log, work_items_log,
                   path_too_long_log, exiftool_failures_log, exif_writes,
                   runs, faults, handled, moves, aux>>

\* lines 293-300: the final cleanup and the exit of the process
EndRun ==
    /\ run.pc = "end"
    /\ workbench' = IF run.clean_workbench THEN EmptyWorkbench ELSE workbench
    /\ run' = Idle
    /\ UNCHANGED <<archiveStore, library, processed_log, work_items_log,
                   path_too_long_log, exiftool_failures_log, exif_writes,
                   runs, faults, handled, moves, aux>>

\* The process is killed (power loss, Ctrl-C, crash): its memory is lost,
\* the disk stays as it is.
Kill ==
    /\ run.pc # "idle"
    /\ faults < MaxFaults
    /\ faults' = faults + 1
    /\ run' = Idle
    /\ UNCHANGED <<disk, runs, handled, moves, aux>>

ArchiveNames == ArchiveFiles \cup {""}
BatchSizes == {0, 1}

Next ==
    \/ \E is_live_run \in BOOLEAN, batch_size \in BatchSizes, archive_name \in ArchiveNames,
          force_extract \in BOOLEAN, clean_workbench \in BOOLEAN :
            StartRun(is_live_run, batch_size, archive_name, force_extract, clean_workbench)
    \/ \E is_live_run \in BOOLEAN, batch_size \in BatchSizes, archive_name \in ArchiveNames,
          force_extract \in BOOLEAN, clean_workbench \in BOOLEAN :
            StatusReport(is_live_run, batch_size, archive_name, force_extract, clean_workbench)
    \/ \E missing \in SanityChecks, archive_name \in ArchiveNames,
          force_extract \in BOOLEAN, clean_workbench \in BOOLEAN :
            SanityExit(missing, archive_name, force_extract, clean_workbench)
    \/ ExtractArchive
    \/ ExtractFails
    \/ SkipProcessed
    \/ FileError
    \/ DryRunFile
    \/ OrphanMove
    \/ OrphanCopy
    \/ OrphanLog
    \/ TooLongMove
    \/ TooLongCopy
    \/ TooLongLogPath
    \/ TooLongLog
    \/ CollisionCopy
    \/ CollisionLog
    \/ CommitMove
    \/ \E ok \in BOOLEAN : CommitStamp(ok)
    \/ CommitCopy
    \/ CommitCopyFails
    \/ \E ok \in BOOLEAN : CommitGps(ok)
    \/ CommitLog
    \/ MarkArchive
    \/ CleanWorkbench
    \/ EndRun
    \/ Kill

Spec == Init /\ [][Next]_vars

(***************************************************************************)
(* The timestamp resolution on its own: process_media_files lines 141-157  *)
(* and 211-237 applied to one media file whose embedded timestamp and      *)
(* matched sidecars are drawn from small sets.                             *)
(***************************************************************************)
\* Matched sidecars of the probed file; in sorted order the .jpeg name comes
\* before the .jpg name, and .sup before .supplemental-metadata.
ProbePrimary == {"IMG_9.jpg.json", "IMG_9.jpeg.json"}
ProbeSupplemental == {"IMG_9.jpg.supplemental-metadata.json", "IMG_9.jpg.sup.json"}
\* Sidecar contents: every mix of a photoTakenTime that is absent, "0" or a
\* date with a creationTime that is absent or a date, and a JSON list.
SidecarSamples ==
    {Sidecar("dict", ptt, ct, NoneVal, NoneVal) :
        ptt \in {NoneVal, StrVal(0), StrVal(TsPrimary)},
        ct \in {NoneVal, StrVal(TsSupplemental)}}
    \cup {Sidecar("list", NoneVal, NoneVal, NoneVal, NoneVal)}
EmbeddedSamples == {NoneVal, IntVal(TsEmbedded)}

ResolveInputs ==
    UNION {{[fn |-> "resolve", embedded |-> e, primary_jsons |-> P,
             supplemental_jsons |-> S, content |-> c, out |-> [k |-> "pending"]] :
               e \in EmbeddedSamples, c \in [P \cup S -> SidecarSamples]} :
           P \in SUBSET ProbePrimary, S \in SUBSET ProbeSupplemental}

InitResolve ==
    /\ archiveStore = ArchiveFiles
    /\ workbench = EmptyWorkbench
    /\ library = {}
    /\ processed_log = [exists |-> FALSE, lines |-> <<>>]
    /\ work_items_log = <<>>
    /\ path_too_long_log = <<>>
    /\ exiftool_failures_log = <<>>
    /\ exif_writes = {}
    /\ run = Idle
    /\ runs = 0
    /\ faults = 0
    /\ handled = {}
    /\ moves = [f \in ArchiveMedia |-> 0]
    /\ pass1 = Pass1Done
    /\ probe \in ResolveInputs

\* lines 141-157, then the decision of lines 211 and 226
ApplyResolve ==
    /\ probe.fn = "resolve"
    /\ probe.out.k = "pending"
    /\ LET r == ResolveTimestamp(probe.embedded, Sorted(probe.primary_jsons),
                                 Sorted(probe.supplemental_jsons), probe.content)
       IN  probe' = [probe EXCEPT !.out =
                        [k |-> "done", date |-> r.date, source |-> r.source,
                         stamps |-> StampsTimestamp(r.source)]]
    /\ UNCHANGED <<disk, run, runs, faults, handled, moves, pass1>>

SpecResolve == InitResolve /\ [][ApplyResolve]_vars

(***************************************************************************)
(* Claims about the timestamp resolution (checked under SpecResolve)       *)
(***************************************************************************)
ResolveDone == probe.fn = "resolve" /\ probe.out.k = "done"

\* C9: whenever the embedded-metadata reader yields a capture timestamp T1,
\* the resolved timestamp is T1 with source "embedded", whatever timestamps
\* the matched primary and supplemental sidecars carry, and no timestamp
\* write is issued for the file.
C9_EmbeddedWins ==
    (ResolveDone /\ probe.embedded.k = "int") =>
        /\ probe.out.date = probe.embedded.v
        /\ probe.out.source = "embedded"
        /\ ~probe.out.stamps

\* An embedded timestamp met a primary sidecar and a supplemental sidecar
\* that both carry another timestamp.
C9_Witness ==
    /\ ResolveDone
    /\ probe.embedded = IntVal(TsEmbedded)
    /\ \E n \in probe.primary_jsons : probe.content[n].ptt = StrVal(TsPrimary)
    /\ \E n \in probe.supplemental_jsons : probe.content[n].ct = StrVal(TsSupplemental)

\* The reading of "has a timestamp" in C10: the sidecar is a JSON object
\* with a photoTakenTime or a creationTime timestamp; its timestamp is the
\* former when present, the latter otherwise.
HasTimestamp(c) == c.shape = "dict" /\ (c.ptt.k # "none" \/ c.ct.k # "none")
TimestampOf(c) == IF c.ptt.k # "none" THEN c.ptt.v ELSE c.ct.v
RECURSIVE FirstWithTimestamp(_, _)
FirstWithTimestamp(paths, content) ==
    IF paths = <<>> THEN NoneVal
    ELSE IF HasTimestamp(content[Head(paths)]) THEN IntVal(TimestampOf(content[Head(paths)]))
    ELSE FirstWithTimestamp(Tail(paths), content)

\* C10: with no embedded timestamp the resolved timestamp is the one of the
\* first matched primary sidecar, in sorted path order, that has a timestamp
\* (source primary JSON); if no primary sidecar has one it is the one of the
\* first matched supplemental sidecar, in sorted path order, that has one
\* (source supplemental); if none has one the file is unresolved.
C10_SidecarOrder ==
    (ResolveDone /\ probe.embedded.k = "none") =>
        LET p == FirstWithTimestamp(Sorted(probe.primary_jsons), probe.content)
            s == FirstWithTimestamp(Sorted(probe.supplemental_jsons), probe.content)
        IN  IF p.k = "int"
            THEN probe.out.source = "primary_json" /\ probe.out.date = p.v
            ELSE IF s.k = "int"
            THEN probe.out.source = "supplemental" /\ probe.out.date = s.v
            ELSE probe.out.source = "none"

(***************************************************************************)
(* Claims about Pass 2 (checked under Spec)                                *)
(***************************************************************************)
Ledger == get_processed_files_log(processed_log)
\* The files below final_library_dir never change and never disappear.
LibraryKept == \A e \in library : e \in library'
\* Nothing is appended to a ledger or to an issue log.
NoLogGrowth ==
    /\ work_items_log' = work_items_log
    /\ path_too_long_log' = path_too_long_log
    /\ exiftool_failures_log' = exiftool_failures_log
    /\ Len(processed_log'.lines) <= Len(processed_log.lines)
    /\ processed_log'.exists => processed_log.exists

\* C1: in a live run the completion entry of an archive is appended to the
\* work-item ledger only when every media file extracted from the archive
\* has reached a terminal state (committed, skipped because its destination
\* exists, or diverted) and is recorded in the per-file ledger.
C1_CompleteOnlyWhenAllTerminal ==
    [][work_items_log' # work_items_log =>
          \A p \in ZipMembers(CurArchive) :
              /\ MediaFile(CurArchive, p) \in handled
              /\ p \in Ledger]_vars

\* Every archive of takeout-archives has its completion entry.
AllArchivesMarked ==
    \A z \in archiveStore :
        LowerEndsWith(z, ".zip") =>
            normalize_archive_key(z) \in get_processed_work_items(work_items_log)

\* C2 (as stated): once every archive is processed, no step of a later live
\* run moves or copies a file or appends to the work-item ledger, to the
\* per-file ledger or to an issue log.
C2_SecondRunIdle ==
    [][(AllArchivesMarked /\ (run.pc = "idle" \/ run.is_live_run)) =>
          /\ library' = library
          /\ exif_writes' = exif_writes
          /\ NoLogGrowth]_vars

\* C2 (amended): once every archive is processed, a live run that is not
\* started with --force-extract on a named archive ends at the selection of
\* its work items: it moves and copies nothing and appends to no ledger and
\* to no issue log.
C2_SecondFullRunIdle ==
    [][(/\ AllArchivesMarked
        /\ \E batch_size \in BatchSizes, archive_name \in ArchiveNames,
              force_extract \in BOOLEAN, clean_workbench \in BOOLEAN :
                /\ archive_name = "" \/ ~force_extract
                /\ StartRun(TRUE, batch_size, archive_name, force_extract, clean_workbench))
       => /\ run' = Idle
          /\ library' = library
          /\ workbench' = workbench
          /\ exif_writes' = exif_writes
          /\ NoLogGrowth]_vars

\* A second run was started after a run had processed every archive: it
\* removed the per-file ledger and ended, the library and the work-item
\* ledger being those of the first run.
C2_Witness ==
    /\ AllArchivesMarked
    /\ runs = 2
    /\ run.pc = "idle"
    /\ ~processed_log.exists
    /\ Len(work_items_log) = 2
    /\ library # {}

\* The archive in work is one the run found without completion entry.
PendingArchive ==
    /\ run.pc \notin {"idle", "end"}
    /\ normalize_archive_key(CurArchive) \notin run.processed_work_items
\* The process is killed in this step.
Killed == run.pc # "idle" /\ run' = Idle /\ faults' = faults + 1 /\ UNCHANGED disk

\* C3: when a live run is killed while it processes an archive, the archive
\* has no completion entry unless it already went through its completion
\* step, so that a later run without archive name selects it again; a run
\* passes over every media file it found in the per-file ledger without any
\* change; no file of the library is overwritten or removed; and no media
\* file is moved to the library more than once.
C3_KillSafe ==
    [][/\ (Killed /\ run.is_live_run /\ PendingArchive
              /\ run.pc \notin {"clean"}) =>
             CurArchive \in
                 select_work_items("", FALSE, get_processed_work_items(work_items_log')).items
       /\ (AtFile /\ CurPath \in run.processed_media_files) => UNCHANGED disk
       /\ LibraryKept
       /\ \A f \in ArchiveMedia : moves'[f] <= 1]_vars

\* A run was killed between the move of a media file and its ledger entry;
\* the next run passed over the files of the ledger and now meets the file
\* that was in flight, at its destination already.
C3_Witness ==
    /\ run.pc = "collided"
    /\ run.is_live_run
    /\ moves[CurFile] = 1
    /\ CurPath \notin Ledger
    /\ \E p \in SeqToSet(run.media_files) : p \in Ledger /\ p \in run.processed_media_files
    /\ faults = 1

\* This step belongs to a dry run: it starts one, or a dry run takes it.
DryRunStep ==
    IF run.pc # "idle" THEN ~run.is_live_run
    ELSE /\ run'.pc = "idle" \/ ~run'.is_live_run
         /\ \E batch_size \in BatchSizes, archive_name \in ArchiveNames,
               force_extract \in BOOLEAN, clean_workbench \in BOOLEAN :
                 StartRun(FALSE, batch_size, archive_name, force_extract, clean_workbench)

\* C4: a dry run leaves all persistent state unchanged: nothing is created,
\* moved, deleted or modified in the library, the review folders, the
\* extraction workbench, the two ledgers and the issue logs, and no metadata
\* write is issued, whatever the other options.
C4_DryRunChangesNothing ==
    [][DryRunStep => UNCHANGED disk]_vars

\* C5: a dry run adds no file under the library root, neither creates nor
\* appends to the per-file ledger, and adds no archive to the work-item
\* ledger, whatever outcome it computes for a media file.
C5_DryRunNoDestinationWrites ==
    [][DryRunStep =>
          /\ library' = library
          /\ Len(processed_log'.lines) <= Len(processed_log.lines)
          /\ processed_log'.exists => processed_log.exists
          /\ work_items_log' = work_items_log]_vars

\* A dry run has computed a commit, an unresolved divert and a path-too-long
\* divert and went through the completion step of an archive.
C5_Witness ==
    /\ run.pc = "clean"
    /\ ~run.is_live_run
    /\ \E p, q, r \in run.processed_media_files :
          /\ Plan(MediaFile(CurArchive, p)).outcome = "dated"
          /\ Plan(MediaFile(CurArchive, q)).outcome = "unresolved"
          /\ Plan(MediaFile(CurArchive, r)).outcome = "too_long"
    /\ library = {}

\* A live run has just passed the placing of a media file without moving
\* it: the target existed.
NotPlaced ==
    /\ run.pc = "file" /\ run.is_live_run
    /\ run'.pc \in {"orphan_moved", "long_moved", "collided"}
    /\ moves' = moves

\* C7: no operation replaces or changes a file that exists at a target path
\* (dated destination, unmatched-media or path-too-long review location,
\* sidecar copy target), and whenever a media file is not placed because its
\* target exists a collision warning is logged for it.
C7_NoOverwriteAndWarn ==
    [][/\ LibraryKept
       /\ NotPlaced => "collision" \in run'.log]_vars

\* The file the run handled last.
PrevPath == run.media_files[run.idx - 1]
PrevFile == MediaFile(CurArchive, PrevPath)

\* C8: when the dated destination of a media file exists in a live run, the
\* media file is not moved, every matched sidecar is in the destination
\* folder afterwards and no file there was replaced, the source path is
\* appended to the per-file ledger, and a run that finds the path in the
\* ledger passes over the file without any change.
C8_CollisionPolicy ==
    [][/\ (run.pc = "file" /\ run'.pc = "collided") =>
             /\ workbench' = workbench
             /\ moves' = moves
             /\ LibraryKept
             /\ \A n \in Plan(CurFile).matched_jsons :
                    \E e \in library' : e.path = join(Plan(CurFile).dest_dir, n)
             /\ \A e \in library' \ library :
                    \E n \in Plan(CurFile).matched_jsons :
                        e = [path |-> join(Plan(CurFile).dest_dir, n), file |-> JsonFile(n)]
       /\ (run.pc = "collided" /\ run'.pc = "file") =>
             /\ processed_log'.exists
             /\ processed_log'.lines = Append(processed_log.lines, CurPath)
       /\ (AtFile /\ CurPath \in Ledger /\ CurPath \in run.processed_media_files) =>
             UNCHANGED disk]_vars

\* A live run met an existing destination whose folder lacked the sidecar
\* (an earlier run was killed between the move and the sidecar copy): the
\* media file is still in the workbench, the sidecar is in the folder now,
\* and the path is in the per-file ledger.
C8_Witness ==
    /\ run.pc = "file" /\ run.is_live_run
    /\ run.idx > 1
    /\ run.log = {"collision"}
    /\ moves[PrevFile] = 1
    /\ PrevPath \in workbench.files
    /\ PrevPath \in Ledger
    /\ Plan(PrevFile).matched_jsons # {}
    /\ \A n \in Plan(PrevFile).matched_jsons : exists(join(Plan(PrevFile).dest_dir, n))
    /\ exif_writes = {}

(***************************************************************************)
(* process_media_recovery.recover_media_with_fallback                      *)
(* The helper is called with the path of a media file, spelled as the      *)
(* caller has it. The file system (Windows) finds a file whatever the case *)
(* of the spelling.                                                        *)
(***************************************************************************)
\* process_media_paths.is_under_dir on absolute "/"-separated paths:
\* os.path.commonpath compares the components without regard to case but
\* returns them as the first path spells them, and the result is compared
\* with root_dir as a string. So the test holds exactly when path starts
\* with root_dir, letter for letter, at a component boundary.
is_under_dir(path, root_dir) ==
    /\ Len(path) >= Len(root_dir)
    /\ SubSeq(path, 1, Len(root_dir)) = root_dir
    /\ Len(path) = Len(root_dir) \/ CharAt(path, Len(root_dir) + 1) = "/"

\* The standalone media files of takeout-archives.
LooseFiles == {f \in ArchiveFiles : ~LowerEndsWith(f, ".zip")}

\* The calls of the helper: a path and the file it names, which is a file
\* of takeout-archives (spelled as the directory listing spells it, or in
\* lower case) or an extracted file of the workbench.
RecoverCall(media_path, where, name, f) ==
    [media_path |-> media_path, where |-> where, name |-> name, file |-> f]
RecoverCalls ==
    {RecoverCall(join(takeout_archives_dir, n), "archives", n,
                 MediaFile("takeout-archives", n)) : n \in LooseFiles}
    \cup {RecoverCall(Lower(join(takeout_archives_dir, "LOOSE.jpg")), "archives",
                      "LOOSE.jpg", MediaFile("takeout-archives", "LOOSE.jpg"))}
    \cup {RecoverCall(join(extract_target_dir, f.path), "workbench", f.path, f) :
              f \in ArchiveMedia}

\* process_media_suffix.normalize_title_variants: a name that ends in
\* "<ext>(digits)" also stands for the name with the group before the
\* extension (the group may have any number of digits)
TitleVariants(true_filename, p, base) ==
    IF p >= 2 /\ HasExtension(base, LastIndexOf(base, "."))
    THEN {true_filename,
          SubSeq(base, 1, LastIndexOf(base, ".") - 1)
              \o SubSeq(true_filename, p, Len(true_filename))
              \o SubSeq(base, LastIndexOf(base, "."), Len(base))}
    ELSE {true_filename}
normalize_title_variants(true_filename) ==
    TitleVariants(true_filename,
                  GroupStart(true_filename, Len(true_filename), Len(true_filename)),
                  SubSeq(true_filename, 1,
                         GroupStart(true_filename, Len(true_filename), Len(true_filename)) - 1))

\* process_media_suffix.extract_google_suffix: r'(\(\d+\))(\.[^.]+)$' found
\* anywhere in the name; "" for None
GoogleSuffixAt(filename, dot) ==
    IF dot >= 1 /\ dot < Len(filename) /\ GroupStart(filename, dot - 1, Len(filename)) >= 1
    THEN SubSeq(filename, GroupStart(filename, dot - 1, Len(filename)), dot - 1)
    ELSE ""
extract_google_suffix(filename) == GoogleSuffixAt(filename, LastIndexOf(filename, "."))

\* str.replace(old, ''): every occurrence of old is removed
FirstIndexOf(s, sub) ==
    CHOOSE i \in 1..(Len(s) - Len(sub) + 1) :
        /\ SubSeq(s, i, i + Len(sub) - 1) = sub
        /\ \A j \in 1..(i - 1) : SubSeq(s, j, j + Len(sub) - 1) # sub
RECURSIVE RemoveAll(_, _)
RemoveAll(s, old) ==
    IF ~Contains(s, old) THEN s
    ELSE SubSeq(s, 1, FirstIndexOf(s, old) - 1)
         \o RemoveAll(SubSeq(s, FirstIndexOf(s, old) + Len(old), Len(s)), old)

\* build_supplemental_index, lines 43-48: the media name a supplemental
\* file is named after, "" for a file that is not indexed
SupplementalBaseName(filename) ==
    IF ~LowerEndsWith(filename, ".json") THEN ""
    ELSE IF Contains(Lower(filename), ".supplemental-metadata")
    THEN SubSeq(filename, 1, FirstIndexOf(Lower(filename), ".supplemental-metadata") - 1)
    ELSE IF LowerEndsWith(filename, ".sup.json")
    THEN SubSeq(filename, 1, Len(filename) - 9)
    ELSE IF SupTail(filename, GroupStart(filename, Len(filename) - 5, Len(filename)))
    THEN SubSeq(filename, 1, GroupStart(filename, Len(filename) - 5, Len(filename)) - 5)
    ELSE ""
IsIndexed(filename) ==
    /\ LowerEndsWith(filename, ".json")
    /\ \/ Contains(Lower(filename), ".supplemental-metadata")
       \/ LowerEndsWith(filename, ".sup.json")
       \/ SupTail(filename, GroupStart(filename, Len(filename) - 5, Len(filename)))
\* lines 50-55: the keys a file is indexed under
BaseKeysOf(variant) ==
    {Lower(variant)}
    \cup (IF extract_google_suffix(variant) # ""
          THEN {Lower(RemoveAll(variant, extract_google_suffix(variant)))} ELSE {})
base_keys(filename) ==
    UNION {BaseKeysOf(variant) :
           variant \in normalize_title_variants(SupplementalBaseName(filename))}
\* build_supplemental_index over the names of the repository directory:
\* key -> the files under it (a list in the order of os.listdir)
build_supplemental_index(names) ==
    [key \in UNION {base_keys(n) : n \in {m \in names : IsIndexed(m)}} |->
        {n \in {m \in names : IsIndexed(m)} : key \in base_keys(n)}]

\* find_all_supplemental_for_basename, lines 89-106: the expected names
ExpectedNames(variants, suffix, base_without_suffix) ==
    IF suffix # ""
    THEN UNION {{base_no \o ".supplemental-metadata" \o suffix \o ".json",
                 base_no \o ".sup" \o suffix \o ".json"} :
                base_no \in normalize_title_variants(base_without_suffix)}
         \cup UNION {{variant \o ".supplemental-metadata.json",
                      variant \o ".supplemental-metadata" \o suffix \o ".json",
                      variant \o ".sup.json",
                      variant \o ".sup" \o suffix \o ".json"} :
                     variant \in variants \cup {base_without_suffix \o suffix}}
    ELSE UNION {{variant \o ".supplemental-metadata.json", variant \o ".sup.json"} :
                variant \in variants}
\* lines 84-87 and 108-115: the files under the key whose name is expected
FindAllUnder(variants, suffix, base_without_suffix, supplemental_index) ==
    IF Lower(base_without_suffix) \notin DOMAIN supplemental_index THEN {}
    ELSE {n \in supplemental_index[Lower(base_without_suffix)] :
             Lower(n) \in {Lower(e) :
                              e \in ExpectedNames(variants, suffix, base_without_suffix)}}
\* lines 74-82: the suffix of the first variant that carries one. The set
\* of variants is walked in no fixed order; only a name with a group both
\* before and after its extension has two such variants.
FindAllWith(basename_, variants, found, supplemental_index) ==
    IF found = {} THEN FindAllUnder(variants, "", basename_, supplemental_index)
    ELSE FindAllUnder(variants,
                      extract_google_suffix(CHOOSE v \in found : TRUE),
                      IF RemoveAll(CHOOSE v \in found : TRUE,
                                   extract_google_suffix(CHOOSE v \in found : TRUE)) = ""
                      THEN basename_
                      ELSE RemoveAll(CHOOSE v \in found : TRUE,
                                     extract_google_suffix(CHOOSE v \in found : TRUE)),
                      supplemental_index)
\* find_all_supplemental_for_basename: the matching files (a list in the
\* order of the index)
find_all_supplemental_for_basename(basename_, supplemental_index) ==
    FindAllWith(basename_, normalize_title_variants(basename_),
                {v \in normalize_title_variants(basename_) : extract_google_suffix(v) # ""},
                supplemental_index)
\* The index of the JSON repository: it is fixed while media are recovered.
SupplementalIndex == build_supplemental_index(DOMAIN JsonRepository)

\* lines 106-114 and 119: the destination, its length check, the fallback
\* destination, and which of copy and move lines 121 and 139 choose
RecoverPlaced(media_path, f, all_supplemental, date, reason, dest_dir, dest_media_path) ==
    [all_supplemental |-> all_supplemental,
     supplemental_path |-> IF all_supplemental = {} THEN "" ELSE Head(Sorted(all_supplemental)),
     has_date |-> date.k = "int", date |-> date.v, reason |-> reason,
     dest_dir |-> dest_dir, dest_media_path |-> dest_media_path,
     is_valid |-> validate_path_length(dest_media_path, MAX_PATH_LENGTH).is_valid,
     path_len |-> validate_path_length(dest_media_path, MAX_PATH_LENGTH).path_length,
     fallback_dest |-> join(path_too_long_dir, basename(media_path)),
     copies |-> is_under_dir(media_path, takeout_archives_dir)]

RecoverDated(media_path, f, all_supplemental, date, reason) ==
    RecoverPlaced(media_path, f, all_supplemental, date, reason,
        get_media_bundle_dir(dest_root_of(date.v), media_path),
        join(get_media_bundle_dir(dest_root_of(date.v), media_path),
             splitext_root(basename(media_path)) \o FileTypeExtension(f)))

\* lines 93-104: the embedded date, else the timestamp of the first
\* supplemental file, else none
RecoverFallback(media_path, f, all_supplemental, timestamp) ==
    IF EmbeddedDateTime(f).k = "int"
    THEN RecoverDated(media_path, f, all_supplemental, EmbeddedDateTime(f), "exif")
    ELSE IF timestamp.k = "int" /\ timestamp.v # 0
    THEN RecoverDated(media_path, f, all_supplemental, timestamp, "supplemental")
    ELSE RecoverDated(media_path, f, all_supplemental, NoneVal, "exif")

RecoverFirst(media_path, f, all_supplemental) ==
    RecoverFallback(media_path, f, all_supplemental,
        IF all_supplemental = {} THEN NoneVal
        ELSE get_timestamp_from_json(JsonRepository[Head(Sorted(all_supplemental))]))

RecoverPlan(media_path, f) ==
    RecoverFirst(media_path, f, find_all_supplemental_for_basename(basename(media_path), SupplementalIndex))

\* The plan of every call; the repository is fixed, so it is computed once.
RecoverTable == [c \in RecoverCalls |-> RecoverPlan(c.media_path, c.file)]

\* The library after the helper put the file at dest, lines 120-126 and
\* 137-143: nothing is put where a file exists.
RecoverPut(f, dest) == IF exists(dest) THEN library ELSE MovedInto(f, dest)

\* normalize_media_extension_fn(path) applied within the library lib: the
\* file at path gets the extension of its content unless that name is taken.
NormalizedIn(lib, path) ==
    {IF SamePath(e.path, path)
     THEN [e EXCEPT !.path = normalize_media_extension(e.path, e.file, lib)]
     ELSE e : e \in lib}

\* lines 128-131 and 159-162: every supplemental file is copied unless one
\* of that name is there
CopySupplementalIn(lib, names, dest_dir) ==
    lib \cup {[path |-> join(dest_dir, n), file |-> JsonFile(n)] :
                 n \in {m \in names : ~\E e \in lib : SamePath(e.path, join(dest_dir, m))}}

\* The source after shutil.copy2 (it stays) or shutil.move (it is gone).
RecoverTakes(c, copies, dest) ==
    /\ archiveStore' =
           IF ~exists(dest) /\ ~copies /\ c.where = "archives"
           THEN archiveStore \ {c.name} ELSE archiveStore
    /\ workbench' =
           IF ~exists(dest) /\ ~copies /\ c.where = "workbench"
           THEN [workbench EXCEPT !.files = @ \ {c.name}] ELSE workbench
    /\ moves' =
           IF ~exists(dest) /\ ~copies /\ c.where = "workbench"
           THEN [moves EXCEPT ![c.file] = @ + 1] ELSE moves

\* lines 115-133: the destination path is too long
RecoverTooLong(c, plan) ==
    /\ RecoverTakes(c, plan.copies, plan.fallback_dest)
    /\ library' =
           CopySupplementalIn(
               IF exists(plan.fallback_dest) THEN library
               ELSE NormalizedIn(RecoverPut(c.file, plan.fallback_dest), plan.fallback_dest),
               plan.all_supplemental, path_too_long_dir)
    /\ path_too_long_log' =
           Append(path_too_long_log,
                  [media |-> c.media_path, dest |-> plan.dest_media_path,
                   path_len |-> plan.path_len])
    /\ UNCHANGED <<exif_writes, exiftool_failures_log, faults>>

\* The GPS the helper would write, lines 165-172, or NoneVal.
RecoverGps(plan, f) ==
    IF plan.all_supplemental # {} /\ (~EmbeddedGps(f).has_gps \/ ~EmbeddedGps(f).gps_valid)
    THEN get_valid_gps_from_supplemental(JsonRepository[plan.supplemental_path])
    ELSE NoneVal

\* lines 135-186: the file goes to its dated folder
RecoverDatedFile(c, plan, stamp, gps, ok_stamp, ok_gps) ==
    /\ ~stamp => ok_stamp
    /\ gps.k # "geo" => ok_gps
    /\ (~ok_stamp \/ ~ok_gps) => faults < MaxFaults
    /\ ok_stamp \/ ok_gps
    /\ faults' = IF ok_stamp /\ ok_gps THEN faults ELSE faults + 1
    /\ RecoverTakes(c, plan.copies, plan.dest_media_path)
    /\ library' =
           CopySupplementalIn(
               NormalizedIn(RecoverPut(c.file, plan.dest_media_path), plan.dest_media_path),
               plan.all_supplemental, plan.dest_dir)
    /\ exif_writes' =
           exif_writes
           \cup (IF stamp /\ ok_stamp
                 THEN {[path |-> plan.dest_media_path, tag |-> "DateTimeOriginal",
                        value |-> plan.date]} ELSE {})
           \cup (IF gps.k = "geo" /\ ok_gps
                 THEN {[path |-> plan.dest_media_path, tag |-> "GPS", value |-> gps]}
                 ELSE {})
    /\ exiftool_failures_log' =
           IF stamp /\ ~ok_stamp
           THEN Append(exiftool_failures_log,
                       [media |-> c.media_path, reason |-> "supplemental_timestamp"])
           ELSE IF gps.k = "geo" /\ ~ok_gps
           THEN Append(exiftool_failures_log,
                       [media |-> c.media_path, reason |-> "supplemental_gps"])
           ELSE exiftool_failures_log
    /\ UNCHANGED path_too_long_log

RecoverBranch(c, plan, is_live_run, ok_stamp, ok_gps) ==
    IF ~plan.has_date \/ ~is_live_run
    THEN /\ ok_stamp /\ ok_gps
         /\ UNCHANGED <<archiveStore, workbench, library, path_too_long_log,
                        exiftool_failures_log, exif_writes, faults, moves>>
    ELSE IF ~plan.is_valid
    THEN /\ ok_stamp /\ ok_gps
         /\ RecoverTooLong(c, plan)
    ELSE RecoverDatedFile(c, plan, plan.reason = "supplemental",
                          RecoverGps(plan, c.file), ok_stamp, ok_gps)

\* recover_media_with_fallback(media_path, supplemental_index,
\* final_library_dir, is_live_run): one more process, started while no
\* Pass-2 process runs, on a file that is there
recover_media_with_fallback(c, is_live_run, ok_stamp, ok_gps) ==
    /\ run.pc = "idle"
    /\ runs < MaxRuns
    /\ runs' = runs + 1
    /\ IF c.where = "archives" THEN c.name \in archiveStore
       ELSE workbench.src = c.file.arch /\ c.name \in workbench.files
    /\ RecoverBranch(c, RecoverTable[c], is_live_run, ok_stamp, ok_gps)
    /\ UNCHANGED <<processed_log, work_items_log, run, handled, aux>>

(***************************************************************************)
(* 1-extract-json.py (Pass 1)                                              *)
(***************************************************************************)
\* line 60-62: the archives Pass 1 has not logged yet
zip_files_to_process ==
    {f \in archiveStore \ LooseFiles : f \notin SeqToSet(pass1.processed_archives_log)}

\* lines 71-112: one archive is read and logged
Pass1Archive(zip_filename) ==
    /\ run.pc = "idle" /\ runs = 0
    /\ zip_filename \in zip_files_to_process
    /\ pass1' = Pass1Read(pass1, zip_filename)
    /\ UNCHANGED <<disk, run, runs, faults, handled, moves, probe>>

\* lines 114-119: the archive cannot be read as a zip file (a download that
\* is replaced later); its name goes to .corrupt_archives.log
Pass1Corrupt(zip_filename) ==
    /\ run.pc = "idle" /\ runs = 0
    /\ zip_filename \in zip_files_to_process
    /\ faults < MaxFaults
    /\ faults' = faults + 1
    /\ pass1' = [pass1 EXCEPT !.corrupt_archives_log = Append(@, zip_filename)]
    /\ UNCHANGED <<disk, run, runs, handled, moves, probe>>

(***************************************************************************)
(* Pass 1, then Pass 2 and the recovery helper, over takeout-archives.     *)
(* Pass 2 and the helper read the repository a complete Pass 1 leaves.     *)
(***************************************************************************)
InitStore ==
    /\ archiveStore = ArchiveFiles
    /\ workbench = EmptyWorkbench
    /\ library = {}
    /\ processed_log = [exists |-> FALSE, lines |-> <<>>]
    /\ work_items_log = <<>>
    /\ path_too_long_log = <<>>
    /\ exiftool_failures_log = <<>>
    /\ exif_writes = {}
    /\ run = Idle
    /\ runs = 0
    /\ faults = 0
    /\ handled = {}
    /\ moves = [f \in ArchiveMedia |-> 0]
    /\ pass1 = Pass1Start
    /\ probe = NoProbe

Pass2 == zip_files_to_process = {} /\ Next

Recover ==
    /\ zip_files_to_process = {}
    /\ \E c \in RecoverCalls, is_live_run \in BOOLEAN,
          ok_stamp \in BOOLEAN, ok_gps \in BOOLEAN :
            recover_media_with_fallback(c, is_live_run, ok_stamp, ok_gps)

NextStore ==
    \/ \E zip_filename \in ArchiveFiles : Pass1Archive(zip_filename)
    \/ \E zip_filename \in ArchiveFiles : Pass1Corrupt(zip_filename)
    \/ Pass2
    \/ Recover

SpecStore == InitStore /\ [][NextStore]_vars

\* C6: no operation of Pass 1, of Pass 2 or of the recovery helper moves,
\* deletes, renames or modifies a file under takeout-archives: the directory
\* holds the files it held at the start, whatever has run.
C6_ArchivesImmutable == archiveStore = ArchiveFiles

(***************************************************************************)
(* The timestamp values of a sidecar: the resolution of lines 141-157      *)
(* applied to at most one primary and one supplemental sidecar whose       *)
(* timestamps are drawn from the ends of the accepted range.               *)
(***************************************************************************)
\* Before any process ran, with Pass 1 complete.
NothingRan ==
    /\ archiveStore = ArchiveFiles
    /\ workbench = EmptyWorkbench
    /\ library = {}
    /\ processed_log = [exists |-> FALSE, lines |-> <<>>]
    /\ work_items_log = <<>>
    /\ path_too_long_log = <<>>
    /\ exiftool_failures_log = <<>>
    /\ exif_writes = {}
    /\ run = Idle
    /\ runs = 0
    /\ faults = 0
    /\ handled = {}
    /\ moves = [f \in ArchiveMedia |-> 0]
    /\ pass1 = Pass1Done

\* photoTakenTime.timestamp as a JSON integer or as a string of digits: the
\* epoch, one second before it, the upper bound and one second after it, a
\* date in between, no number, nothing.
TimestampSamples ==
    {Sidecar("dict", ptt, ct, NoneVal, NoneVal) :
        ptt \in {NoneVal, BadStr, IntVal(0), StrVal(0), IntVal(-1), StrVal(max_timestamp),
                 IntVal(max_timestamp + 1), StrVal(TsPrimary)},
        ct \in {NoneVal, IntVal(TsSupplemental)}}

TimestampInputs ==
    UNION {{[fn |-> "resolve", embedded |-> e, primary_jsons |-> P,
             supplemental_jsons |-> S, content |-> c, out |-> [k |-> "pending"]] :
               e \in EmbeddedSamples, c \in [P \cup S -> TimestampSamples]} :
           P \in SUBSET {"IMG_9.jpg.json"},
           S \in SUBSET {"IMG_9.jpg.supplemental-metadata.json"}}

InitTimestamp == NothingRan /\ probe \in TimestampInputs

SpecTimestamp == InitTimestamp /\ [][ApplyResolve]_vars

\* The integer timestamp a sidecar carries: photoTakenTime.timestamp, or
\* creationTime.timestamp when the sidecar has no photoTakenTime.
IsInteger(x) == x.k \in {"int", "str"}
CarriesInteger(c) ==
    c.shape = "dict" /\ (IsInteger(c.ptt) \/ (c.ptt.k = "none" /\ IsInteger(c.ct)))
IntegerOf(c) == IF IsInteger(c.ptt) THEN c.ptt.v ELSE c.ct.v
InRange(n) == 0 <= n /\ n <= 1893456000

\* C11: every integer timestamp read from a sidecar is used when it is the
\* highest-precedence source present: with no embedded timestamp, the
\* integer of the primary sidecar is the resolved timestamp (source primary
\* JSON), and without one the integer of the supplemental sidecar is (source
\* supplemental); the value is flagged with a warning exactly when it lies
\* outside [0, 1893456000], and it is never treated as absent.
C11_IntegerTimestampUsed ==
    (ResolveDone /\ probe.embedded.k = "none") =>
        LET P == {n \in probe.primary_jsons : CarriesInteger(probe.content[n])}
            S == {n \in probe.supplemental_jsons : CarriesInteger(probe.content[n])}
            Used(n, source) ==
                /\ probe.out.source = source
                /\ probe.out.date = IntegerOf(probe.content[n])
                /\ (timestamp_warning(probe.out.date) = "none") <=> InRange(probe.out.date)
        IN  /\ \A n \in P : Used(n, "primary_json")
            /\ P = {} => \A n \in S : Used(n, "supplemental")

(***************************************************************************)
(* Claims about the branches of process_media_files (checked under Spec)   *)
(***************************************************************************)
\* The file in work is at path and nowhere else below the library root.
OnlyAt(lib, path) ==
    /\ \E e \in lib : e.path = path /\ e.file = CurFile
    /\ \A e \in lib : e.file = CurFile => e.path = path
\* Every matched sidecar of the file in work has a copy in dir.
SidecarsIn(lib, dir) ==
    \A n \in Plan(CurFile).matched_jsons :
        \E e \in lib : e.path = join(dir, n) /\ e.file = JsonFile(n)

\* C12: in a live run a media file with no usable timestamp takes the
\* unmatched-media branch, and when the branch ends the file is in the
\* unmatched-media review location and in no dated folder, its matched
\* sidecars are in that location and its path is in the per-file ledger.
C12_UnresolvedDiverted ==
    [][/\ (Fresh /\ run.is_live_run /\ Plan(CurFile).outcome = "unresolved" /\ ~Killed) =>
             run'.pc = "orphan_moved"
       /\ (run.pc = "orphan_copied" /\ run'.pc = "file") =>
             /\ OnlyAt(library', join(orphan_media_dir, Plan(CurFile).base_name))
             /\ SidecarsIn(library', orphan_media_dir)
             /\ CurPath \in get_processed_files_log(processed_log')]_vars

\* C13: a media file whose destination path is as long as the limit or
\* longer is never placed in a dated folder: in a live run it takes the
\* path-too-long branch, and when the branch ends the file and its matched
\* sidecars are in the path-too-long review location, the divert is in the
\* path-too-long log and the path of the file in the per-file ledger.
C13_TooLongDiverted ==
    [][/\ (Fresh /\ run.is_live_run /\ ~Killed
              /\ Plan(CurFile).outcome \in {"dated", "too_long"}
              /\ Len(Plan(CurFile).dest_media_path) >= 240) =>
             run'.pc = "long_moved"
       /\ (run.pc = "long_logged" /\ run'.pc = "file") =>
             /\ OnlyAt(library', join(path_too_long_dir, Plan(CurFile).base_name))
             /\ SidecarsIn(library', path_too_long_dir)
             /\ \E i \in 1..Len(path_too_long_log') :
                    /\ path_too_long_log'[i].media = CurPath
                    /\ path_too_long_log'[i].path_len = Len(Plan(CurFile).dest_media_path)
             /\ CurPath \in get_processed_files_log(processed_log')]_vars

(***************************************************************************)
(* The destination on its own: process_media_files lines 172-180 applied   *)
(* to one media file whose workbench path, detected extension and resolved *)
(* timestamp are drawn from small sets.                                    *)
(***************************************************************************)
\* Media paths: a duplicate suffix, an extension that is not the content's,
\* dots inside the stem, and two stems around the path-length limit.
PlaceMedia ==
    {"Photos/IMG_0006(2).jpg", "Photos/IMG_2.HEIC", "Album/trip.2019.PNG",
     "Photos/" \o SubSeq(LongStem, 1, 98) \o ".jpg", "Photos/" \o LongStem \o ".jpg"}
\* What exiftool -FileTypeExtension can report, with the leading dot.
PlaceExtensions == {".jpg", ".heic"}
\* Resolved timestamps: the epoch, the last second of a month and the first
\* of the next, a leap day, a day inside a month.
PlaceDates == {0, TsPrimary - 1, TsPrimary, TsSupplemental, 951782400}

PlaceInputs ==
    {[fn |-> "place", media_file_path |-> p, real_ext |-> x, date |-> d,
      source |-> s, out |-> [k |-> "pending"]] :
        p \in PlaceMedia, x \in PlaceExtensions, d \in PlaceDates,
        s \in {"embedded", "primary_json", "supplemental"}}

InitPlace == NothingRan /\ probe \in PlaceInputs

\* lines 172-180: the destination and its length check
ApplyPlace ==
    /\ probe.fn = "place"
    /\ probe.out.k = "pending"
    /\ probe' = [probe EXCEPT !.out =
                    [k |-> "done",
                     plan |-> PlanPlaced(basename(probe.media_file_path),
                                  [primary |-> {}, supplemental |-> {}],
                                  Resolved(probe.date, probe.source),
                                  dest_dir_of(probe.media_file_path, probe.date),
                                  dest_media_path_of(probe.media_file_path,
                                                     probe.real_ext, probe.date))]]
    /\ UNCHANGED <<disk, run, runs, faults, handled, moves, pass1>>

SpecPlace == InitPlace /\ [][ApplyPlace]_vars

(***************************************************************************)
(* Claims about the destination (checked under SpecPlace)                  *)
(***************************************************************************)
PlaceDone == probe.fn = "place" /\ probe.out.k = "done"
\* The UTC year and month of the sampled timestamps, as "YYYY/MM".
UtcYearMonth(ts) ==
    CASE ts = 0 -> "1970/01"
      [] ts = 1622505599 -> "2021/05"
      [] ts = 1622505600 -> "2021/06"
      [] ts = 1549166706 -> "2019/02"
      [] ts = 951782400 -> "2000/02"
\* A file name without its directory, and without its last extension.
NameOf(path) == SubSeq(path, LastIndexOf(path, "/") + 1, Len(path))
StemOf(path) == SubSeq(NameOf(path), 1, LastIndexOf(NameOf(path), ".") - 1)

\* C14: for a media file with a resolved timestamp and a destination path
\* shorter than the limit, the commit target is
\* <library>/<YYYY>/<MM>/<stem>/<stem><detected-ext>: YYYY and MM are the UTC
\* year and month of the timestamp, stem is the media base name without its
\* last extension (a duplicate suffix "(2)" stays), and the extension is the
\* one detected in the content.
C14_CommitTarget ==
    (PlaceDone /\ probe.out.plan.outcome = "dated") =>
        /\ probe.out.plan.dest_dir =
               "Z:/Family Pictures and Videos/" \o UtcYearMonth(probe.date)
                   \o "/" \o StemOf(probe.media_file_path)
        /\ probe.out.plan.dest_media_path =
               probe.out.plan.dest_dir \o "/" \o StemOf(probe.media_file_path)
                   \o probe.real_ext

\* The destination of IMG_0006(2).jpg, whose content is HEIC, resolved to the
\* last second of May 2021.
C14_Witness ==
    /\ PlaceDone
    /\ probe.media_file_path = "Photos/IMG_0006(2).jpg"
    /\ probe.real_ext = ".heic"
    /\ probe.date = TsPrimary - 1
    /\ probe.out.plan.outcome = "dated"
    /\ probe.out.plan.dest_media_path =
           "Z:/Family Pictures and Videos/2021/05/IMG_0006(2)/IMG_0006(2).heic"

(***************************************************************************)
(* Sidecar names on their own: the suffix functions, candidate generation, *)
(* match_json_for_media and find_all_supplemental_for_basename applied to  *)
(* one media name and one listing of the JSON repository.                  *)
(***************************************************************************)
\* A media name is put together from a name, a parenthesised group of
\* digits (or none) placed before or after the extension, and an extension
\* (or none). The second name carries a group of its own that is not next
\* to the extension.
ShapeNames == {"IMG_7", "IMG(1)_7"}
ShapeGroups == {"(0)", "(1)", "(2)", "(123)", "(2020)"}
ShapeExtensions == {"", ".jpg", ".JPG", ".jpeg", ".mp4"}
NameShapes ==
    {[name |-> n, group |-> "", ext |-> x, place |-> "before"] :
        n \in ShapeNames, x \in ShapeExtensions}
    \cup {[name |-> n, group |-> g, ext |-> x, place |-> p] :
            n \in ShapeNames, g \in ShapeGroups, x \in ShapeExtensions,
            p \in {"before", "after"}}
MediaOf(shape) ==
    IF shape.place = "before" THEN shape.name \o shape.group \o shape.ext
    ELSE shape.name \o shape.ext \o shape.group

\* Files the JSON repository may hold, and its sampled listings: all of
\* them, all but one, one alone, none.
SidecarPool ==
    {"IMG_7.jpg.json", "IMG_7.jpg(2).json", "IMG_7(2).jpg.json", "IMG_7.jpg(1).json",
     "IMG_7.jpeg.json", "IMG_7.jpg(2020).json", "IMG(1)_7.jpg.json",
     "IMG_7.jpg.supplemental-metadata.json", "IMG_7.jpg.supplemental-metadata(2).json",
     "IMG_7.JPG.sup(1).json", "IMG_7(2).jpg.supplemental-metadata.json",
     "IMG_7.jpg(2).sup.json", "IMG_7.jpg.supplemental-metadata(2020).json",
     "IMG(1)_7.jpg.supplemental-metadata(1).json", "IMG_7.jpg.sup.json",
     "IMG_7.mp4.supplemental-metadata.json"}
Listings ==
    {SidecarPool, {}} \cup {SidecarPool \ {n} : n \in SidecarPool}
                      \cup {{n} : n \in SidecarPool}

NameInputs ==
    {[fn |-> f, shape |-> s, media_filename |-> MediaOf(s), repository |-> {},
      out |-> [k |-> "pending"]] :
        f \in {"extract_strict_media_suffix", "split_media_suffix",
               "generate_json_candidates_for_media"},
        s \in NameShapes}
    \cup {[fn |-> f, shape |-> s, media_filename |-> MediaOf(s), repository |-> r,
           out |-> [k |-> "pending"]] :
            f \in {"match_json_for_media", "find_all_supplemental_for_basename"},
            s \in NameShapes, r \in Listings}

InitNames == NothingRan /\ probe \in NameInputs

\* The lookup and the index of each listing: a listing does not change while
\* a name is matched, so they are computed once.
ListingLookup == [r \in Listings |-> build_json_lookup(r)]
ListingIndex == [r \in Listings |-> build_supplemental_index(r)]

ApplyExtractStrict ==
    /\ probe.fn = "extract_strict_media_suffix"
    /\ probe.out.k = "pending"
    /\ probe' = [probe EXCEPT !.out =
                    [k |-> "done",
                     suffix |-> extract_strict_media_suffix(probe.media_filename)]]
    /\ UNCHANGED <<disk, run, runs, faults, handled, moves, pass1>>

ApplySplit ==
    /\ probe.fn = "split_media_suffix"
    /\ probe.out.k = "pending"
    /\ probe' = [probe EXCEPT !.out =
                    [k |-> "done", split |-> split_media_suffix(probe.media_filename)]]
    /\ UNCHANGED <<disk, run, runs, faults, handled, moves, pass1>>

ApplyCandidates ==
    /\ probe.fn = "generate_json_candidates_for_media"
    /\ probe.out.k = "pending"
    /\ probe' = [probe EXCEPT !.out =
                    [k |-> "done",
                     candidates |-> generate_json_candidates_for_media(probe.media_filename)]]
    /\ UNCHANGED <<disk, run, runs, faults, handled, moves, pass1>>

\* match_json_for_media against the lookup build_json_lookup makes of the
\* listing
ApplyMatch ==
    /\ probe.fn = "match_json_for_media"
    /\ probe.out.k = "pending"
    /\ probe' = [probe EXCEPT !.out =
                    [k |-> "done",
                     m |-> match_json_for_media(probe.media_filename,
                                                ListingLookup[probe.repository])]]
    /\ UNCHANGED <<disk, run, runs, faults, handled, moves, pass1>>

\* find_all_supplemental_for_basename against the index
\* build_supplemental_index makes of the listing
ApplyFindAll ==
    /\ probe.fn = "find_all_supplemental_for_basename"
    /\ probe.out.k = "pending"
    /\ probe' = [probe EXCEPT !.out =
                    [k |-> "done",
                     matching |-> find_all_supplemental_for_basename(
                                      probe.media_filename,
                                      ListingIndex[probe.repository])]]
    /\ UNCHANGED <<disk, run, runs, faults, handled, moves, pass1>>

NextNames ==
    \/ ApplyExtractStrict
    \/ ApplySplit
    \/ ApplyCandidates
    \/ ApplyMatch
    \/ ApplyFindAll

SpecNames == InitNames /\ [][NextNames]_vars

(***************************************************************************)
(* Claims about sidecar names (checked under SpecNames)                    *)
(***************************************************************************)
NamesDone(f) == probe.fn = f /\ probe.out.k = "done"
\* The shape of a name whose group is a duplicate suffix: 1 to 3 digits,
\* next to an extension.
HasSuffix(shape) ==
    shape.group # "" /\ Len(shape.group) <= 5 /\ shape.ext # ""
StartsWith(s, pre) == Len(s) >= Len(pre) /\ SubSeq(s, 1, Len(pre)) = pre
Rest(s, pre) == SubSeq(s, Len(pre) + 1, Len(s))
\* A media name up to and including its group.
GroupedName(shape) ==
    IF shape.place = "before" THEN shape.name \o shape.group
    ELSE shape.name \o shape.ext \o shape.group
\* The parenthesised group of digits that ends s before ".json", "" if none.
GroupBeforeJson(s) ==
    IF EndsWith(s, ").json") /\ GroupStart(s, Len(s) - 5, Len(s)) >= 1
    THEN SubSeq(s, GroupStart(s, Len(s) - 5, Len(s)), Len(s) - 5)
    ELSE ""
\* The other spelling of a JPEG extension, in the case the code writes it.
OtherJpeg(ext) ==
    IF Lower(ext) = ".jpg" THEN {".jpeg"}
    ELSE IF Lower(ext) = ".jpeg" THEN {".jpg"} ELSE {}
SidecarTails == {".json", ".supplemental-metadata.json", ".sup.json"}

\* C15: for every media name of the form name(N).ext with N of 1 to 3
\* digits, the candidates of generate_json_candidates_for_media include
\* name(N).ext.json, name.ext(N).json and the supplemental forms that carry
\* (N); no candidate ends in (M).json with M different from N; and none of
\* name.ext.json, name.ext.supplemental-metadata.json, name.ext.sup.json is
\* a candidate.
C15_SuffixedCandidates ==
    (/\ NamesDone("generate_json_candidates_for_media")
     /\ HasSuffix(probe.shape)
     /\ probe.shape.place = "before") =>
        LET name == probe.shape.name
            N == probe.shape.group
            ext == probe.shape.ext
            candidates == SeqToSet(probe.out.candidates)
        IN  /\ {name \o N \o ext \o ".json",
                name \o ext \o N \o ".json",
                name \o ext \o ".supplemental-metadata" \o N \o ".json",
                name \o ext \o ".sup" \o N \o ".json"} \subseteq candidates
            /\ \A c \in candidates : GroupBeforeJson(c) \in {"", N}
            /\ \A t \in SidecarTails : name \o ext \o t \notin candidates

\* The candidates of IMG_7(2).jpg: both placements of (2), and no
\* IMG_7.jpg.json.
C15_Witness ==
    /\ NamesDone("generate_json_candidates_for_media")
    /\ probe.media_filename = "IMG_7(2).jpg"
    /\ Len(probe.out.candidates) = 19
    /\ \E i \in 1..19 : probe.out.candidates[i] = "IMG_7.jpg(2).json"
    /\ \E i \in 1..19 : probe.out.candidates[i] = "IMG_7.jpeg.sup(2).json"

\* C16: for every media name that carries no duplicate suffix next to its
\* extension (no group, a group of 4 digits, or no extension), the
\* candidates are exactly the name itself and its jpg/jpeg twin, each
\* followed by .json, .supplemental-metadata.json or .sup.json: what follows
\* the name holds no parenthesised number, and no candidate is listed twice.
C16_UnsuffixedCandidates ==
    (/\ NamesDone("generate_json_candidates_for_media")
     /\ ~HasSuffix(probe.shape)) =>
        LET plain == probe.media_filename
            twins == IF probe.shape.place = "before" \/ probe.shape.group = ""
                     THEN {probe.shape.name \o probe.shape.group \o x :
                              x \in OtherJpeg(probe.shape.ext)}
                     ELSE {}
            candidates == SeqToSet(probe.out.candidates)
        IN  /\ candidates = {v \o t : v \in {plain} \cup twins, t \in SidecarTails}
            /\ Len(probe.out.candidates) = Cardinality(candidates)
            /\ \A c \in candidates :
                   /\ StartsWith(c, GroupedName(probe.shape))
                   /\ ~Contains(Rest(c, GroupedName(probe.shape)), "(")

\* The candidates of IMG_7(2020).jpg: six names, each with (2020) where the
\* media name has it.
C16_Witness ==
    /\ NamesDone("generate_json_candidates_for_media")
    /\ probe.media_filename = "IMG_7(2020).jpg"
    /\ probe.out.candidates =
           <<"IMG_7(2020).jpeg.json", "IMG_7(2020).jpeg.sup.json",
             "IMG_7(2020).jpeg.supplemental-metadata.json",
             "IMG_7(2020).jpg.json", "IMG_7(2020).jpg.sup.json",
             "IMG_7(2020).jpg.supplemental-metadata.json">>

\* Every parenthesised group that s holds is g: each "(" of s opens g.
OnlyGroup(s, g) ==
    \A i \in 1..Len(s) :
        CharAt(s, i) = "(" => (g # "" /\ SubSeq(s, i, i + Len(g) - 1) = g)

\* C17: extract_strict_media_suffix and split_media_suffix return a suffix
\* (N) only when a group of 1 to 3 digits stands right before or right after
\* the last extension, and then they return that group; a group of 4 digits,
\* a group in a name without extension and a group elsewhere in the name
\* yield no suffix. The candidates of such a name never move or reuse the
\* group: each candidate starts with the name up to its group, and what
\* follows holds no group but the suffix (none for a name without suffix).
C17_StrictSuffix ==
    LET expected == IF HasSuffix(probe.shape) THEN probe.shape.group ELSE ""
    IN  /\ NamesDone("extract_strict_media_suffix") => probe.out.suffix = expected
        /\ NamesDone("split_media_suffix") =>
               /\ probe.out.split.suffix = expected
               /\ probe.out.split.base_without_suffix =
                      (IF HasSuffix(probe.shape)
                       THEN probe.shape.name \o probe.shape.ext
                       ELSE probe.media_filename)
        /\ NamesDone("generate_json_candidates_for_media") =>
               \A i \in 1..Len(probe.out.candidates) :
                   /\ StartsWith(probe.out.candidates[i],
                                 IF HasSuffix(probe.shape) THEN probe.shape.name
                                 ELSE GroupedName(probe.shape))
                   /\ OnlyGroup(Rest(probe.out.candidates[i],
                                     IF HasSuffix(probe.shape) THEN probe.shape.name
                                     ELSE GroupedName(probe.shape)),
                                expected)

\* split_media_suffix on IMG(1)_7.jpg(123): the suffix is the group after
\* the extension, and the group inside the name stays where it is.
C17_Witness ==
    /\ NamesDone("split_media_suffix")
    /\ probe.media_filename = "IMG(1)_7.jpg(123)"
    /\ probe.out.split = [base_without_suffix |-> "IMG(1)_7.jpg", suffix |-> "(123)",
                          suffix_after_ext |-> "IMG(1)_7.jpg(123)",
                          suffix_before_ext |-> "IMG(1)_7(123).jpg"]

\* The supplemental marker of a sidecar name: ".supplemental-metadata", or
\* ".sup" right before ".json" or before a group and ".json".
CarriesSupplementalMarker(c) ==
    \/ Contains(Lower(c), ".supplemental-metadata")
    \/ EndsWith(Lower(c), ".sup.json")
    \/ /\ GroupBeforeJson(c) # ""
       /\ EndsWith(Lower(c), ".sup" \o GroupBeforeJson(c) \o ".json")

\* C18: for every media name and every lookup, match_json_for_media returns
\* only files of the repository stored under the lower-cased name of a
\* candidate of generate_json_candidates_for_media; the file of a candidate
\* is in the supplemental list exactly when the candidate carries a
\* supplemental marker and in the primary list otherwise; the two lists are
\* disjoint and without duplicates; so a media name without suffix matches
\* no sidecar with a group after the name, and a media name with suffix (N)
\* matches only sidecars that carry (N) and no other group.
C18_MatchBuckets ==
    NamesDone("match_json_for_media") =>
        LET primary == SeqToSet(probe.out.m.primary)
            supplemental == SeqToSet(probe.out.m.supplemental)
            candidates == SeqToSet(generate_json_candidates_for_media(probe.media_filename))
            stored == {n \in probe.repository : EndsWith(Lower(n), ".json")}
            suffix == IF HasSuffix(probe.shape) THEN probe.shape.group ELSE ""
            kept == IF HasSuffix(probe.shape) THEN probe.shape.name
                    ELSE GroupedName(probe.shape)
        IN  /\ primary \cup supplemental \subseteq stored
            /\ \A n \in stored :
                   IF \E c \in candidates : Lower(c) = Lower(n)
                   THEN \A c \in {d \in candidates : Lower(d) = Lower(n)} :
                            /\ n \in supplemental <=> CarriesSupplementalMarker(c)
                            /\ n \in primary <=> ~CarriesSupplementalMarker(c)
                   ELSE n \notin primary \cup supplemental
            /\ primary \cap supplemental = {}
            /\ Len(probe.out.m.primary) = Cardinality(primary)
            /\ Len(probe.out.m.supplemental) = Cardinality(supplemental)
            /\ \A n \in primary \cup supplemental :
                   /\ StartsWith(Lower(n), Lower(kept))
                   /\ OnlyGroup(Rest(n, kept), suffix)
                   /\ suffix # "" => Contains(Rest(n, kept), suffix)

\* IMG_7(2).jpg against the whole pool: the two primary sidecars that carry
\* (2) and three supplemental ones, none of the unsuffixed ones.
C18_Witness ==
    /\ NamesDone("match_json_for_media")
    /\ probe.media_filename = "IMG_7(2).jpg"
    /\ probe.repository = SidecarPool
    /\ probe.out.m.primary = <<"IMG_7(2).jpg.json", "IMG_7.jpg(2).json">>
    /\ probe.out.m.supplemental =
           <<"IMG_7(2).jpg.supplemental-metadata.json", "IMG_7.jpg(2).sup.json",
             "IMG_7.jpg.supplemental-metadata(2).json">>

\* The supplemental sidecar names of a media name: for a name with suffix
\* (N), the name without suffix followed by a marker that carries (N), and
\* the name with (N) before or after the extension followed by a marker
\* with or without (N); for a name without suffix, the name followed by a
\* marker.
ExactSupplementalNames(shape) ==
    IF HasSuffix(shape)
    THEN {shape.name \o shape.ext \o mk \o shape.group \o ".json" :
              mk \in {".supplemental-metadata", ".sup"}}
         \cup {v \o mk \o g \o ".json" :
                  v \in {shape.name \o shape.group \o shape.ext,
                         shape.name \o shape.ext \o shape.group},
                  mk \in {".supplemental-metadata", ".sup"},
                  g \in {"", shape.group}}
    ELSE {MediaOf(shape) \o mk \o ".json" : mk \in {".supplemental-metadata", ".sup"}}
\* The files of a listing that build_supplemental_index takes in whose name
\* is, but for case, one of the exact names
ExactSupplementalFiles(shape, repository) ==
    {n \in repository :
        /\ EndsWith(Lower(n), ".json")
        /\ CarriesSupplementalMarker(n)
        /\ Lower(n) \in {Lower(e) : e \in ExactSupplementalNames(shape)}}

\* C19: find_all_supplemental_for_basename returns only indexed
\* supplemental files whose name equals, but for case, one of the exact
\* names of the media file (its own suffix, in both placements, for both
\* markers); for a media name with suffix (N) it returns every such file,
\* and never a file without suffix or with another suffix; it returns
\* nothing when no file has an exact name.
C19_ExactSupplemental ==
    NamesDone("find_all_supplemental_for_basename") =>
        /\ probe.out.matching \subseteq
               ExactSupplementalFiles(probe.shape, probe.repository)
        /\ HasSuffix(probe.shape) =>
               /\ probe.out.matching =
                      ExactSupplementalFiles(probe.shape, probe.repository)
               /\ \A n \in probe.out.matching :
                      /\ Contains(Rest(n, probe.shape.name), probe.shape.group)
                      /\ OnlyGroup(Rest(n, probe.shape.name), probe.shape.group)
        /\ ExactSupplementalFiles(probe.shape, probe.repository) = {} =>
               probe.out.matching = {}

(***************************************************************************)
(* GPS validity on its own: get_valid_gps_from_supplemental applied to one *)
(* sidecar and get_embedded_gps applied to the tags of one file, with      *)
(* coordinates around the band of 0.0001 degree (10 units).                *)
(***************************************************************************)
\* Inside the band, on its edge, and far from it, on both sides of zero.
GpsCoordinates == {-5150000, -10, -9, 0, 9, 10, 5150000}
GpsBlocks ==
    {NoneVal, BadStr} \cup {Geo(lat, lon, 0) : lat \in GpsCoordinates, lon \in GpsCoordinates}
GpsInputs ==
    {[fn |-> "get_valid_gps_from_supplemental",
      content |-> Sidecar("dict", NoneVal, NoneVal, exif, geo),
      out |-> [k |-> "pending"]] : exif \in GpsBlocks, geo \in GpsBlocks}
    \cup {[fn |-> "get_embedded_gps", tags |-> t, out |-> [k |-> "pending"]] :
             t \in GpsBlocks}

InitGps == NothingRan /\ probe \in GpsInputs

ApplySidecarGps ==
    /\ probe.fn = "get_valid_gps_from_supplemental"
    /\ probe.out.k = "pending"
    /\ probe' = [probe EXCEPT !.out =
                    [k |-> "done", gps |-> get_valid_gps_from_supplemental(probe.content)]]
    /\ UNCHANGED <<disk, run, runs, faults, handled, moves, pass1>>

ApplyEmbeddedGps ==
    /\ probe.fn = "get_embedded_gps"
    /\ probe.out.k = "pending"
    /\ probe' = [probe EXCEPT !.out =
                    [k |-> "done", gps |-> get_embedded_gps(probe.tags)]]
    /\ UNCHANGED <<disk, run, runs, faults, handled, moves, pass1>>

NextGps ==
    \/ ApplySidecarGps
    \/ ApplyEmbeddedGps

SpecGps == InitGps /\ [][NextGps]_vars

(***************************************************************************)
(* Claims about GPS validity (checked under SpecGps)                       *)
(***************************************************************************)
GpsDone(f) == probe.fn = f /\ probe.out.k = "done"
\* |latitude| < 0.0001 and |longitude| < 0.0001, in units of 0.00001 degree
InsideBand(x) == -10 < x /\ x < 10
Rejected(block) == InsideBand(block.v[1]) /\ InsideBand(block.v[2])
Usable(block) == block.k = "geo" /\ ~Rejected(block)

\* C20: a GPS coordinate is rejected exactly when both |latitude| < 0.0001
\* and |longitude| < 0.0001, so a coordinate with one axis inside the band
\* is valid; the rule is the same for the GPS blocks of a sidecar
\* (geoDataExif first, then geoData) and for the GPS embedded in a file.
C20_GpsValidity ==
    /\ GpsDone("get_valid_gps_from_supplemental") =>
           probe.out.gps =
               (IF Usable(probe.content.geoDataExif) THEN probe.content.geoDataExif
                ELSE IF Usable(probe.content.geoData) THEN probe.content.geoData
                ELSE NoneVal)
    /\ (GpsDone("get_embedded_gps") /\ probe.tags.k = "geo") =>
           /\ probe.out.gps.has_gps
           /\ probe.out.gps.gps_valid <=> ~Rejected(probe.tags)

\* A sidecar whose geoDataExif is inside the band on both axes and whose
\* geoData lies on the equator: the point on the equator is returned.
C20_Witness ==
    /\ GpsDone("get_valid_gps_from_supplemental")
    /\ probe.content.geoDataExif = Geo(9, 9, 0)
    /\ probe.content.geoData = Geo(0, 5150000, 0)
    /\ probe.out.gps = Geo(0, 5150000, 0)

(***************************************************************************)
(* The precedence inside one supplemental sidecar: the function applied to *)
(* files of every shape, with GPS blocks that are absent, well formed,     *)
(* not convertible, or no JSON object at all.                              *)
(***************************************************************************)
SidecarShapes == {"dict", "list", "invalid"}
PriorityCoordinates == {0, 9, 5150000}
PriorityBlocks ==
    {NoneVal, BadStr, NonObject, Overflowing}
        \cup {Geo(lat, lon, 0) : lat \in PriorityCoordinates, lon \in PriorityCoordinates}
PriorityInputs ==
    {[fn |-> "get_valid_gps_from_supplemental",
      content |-> Sidecar(shape, NoneVal, NoneVal, exif, geo),
      out |-> [k |-> "pending"]] :
        shape \in SidecarShapes, exif \in PriorityBlocks, geo \in PriorityBlocks}

InitPriority == NothingRan /\ probe \in PriorityInputs
NextPriority == ApplySidecarGps
SpecPriority == InitPriority /\ [][NextPriority]_vars

\* C21: within one supplemental sidecar the function returns the
\* geoDataExif coordinate when that block is present, convertible and valid,
\* otherwise the geoData coordinate when that block is present, convertible
\* and valid, otherwise none; a geoDataExif that is Null Island or cannot be
\* converted never keeps a valid geoData from being returned; a file that is
\* no JSON object yields none.
C21_BlockPriority ==
    GpsDone("get_valid_gps_from_supplemental") =>
        /\ probe.content.shape = "dict" =>
               probe.out.gps =
                   (IF Usable(probe.content.geoDataExif) THEN probe.content.geoDataExif
                    ELSE IF Usable(probe.content.geoData) THEN probe.content.geoData
                    ELSE NoneVal)
        /\ (/\ probe.content.shape = "dict"
            /\ ~Usable(probe.content.geoDataExif)
            /\ Usable(probe.content.geoData)) =>
               probe.out.gps = probe.content.geoData
        /\ probe.content.shape # "dict" => probe.out.gps = NoneVal

(***************************************************************************)
(* The GPS write on its own: process_media_files lines 246-263 applied to  *)
(* one committed file, given the GPS tags it carries, its matched          *)
(* supplemental sidecars and whether the metadata tool succeeds.           *)
(***************************************************************************)
GpsWriteNames == {"IMG_2.HEIC.supplemental-metadata.json", "IMG_2.HEIC.SUPPLEMENTAL-METADATA(1).json"}
GpsWriteTags ==
    {NoneVal, BadStr, Geo(0, 0, 0), Geo(9, -9, 0), Geo(0, 4880000, 0), Geo(4880000, 230000, 0)}
GpsWriteSidecars ==
    {Sidecar("dict", NoneVal, NoneVal, NoneVal, NoneVal),
     Sidecar("dict", NoneVal, NoneVal, Geo(0, 0, 0), NoneVal),
     Sidecar("dict", NoneVal, NoneVal, Geo(0, 0, 0), Geo(5150000, 0, 0)),
     Sidecar("dict", NoneVal, NoneVal, Geo(4070000, -7400000, 10), Geo(5150000, 0, 0)),
     Sidecar("dict", NoneVal, NoneVal, BadStr, Geo(-3390000, 15120000, 0)),
     Sidecar("invalid", NoneVal, NoneVal, NoneVal, NoneVal)}
GpsWriteInputs ==
    {[fn |-> "gps_write", tags |-> tags, supplemental_jsons |-> names,
      content |-> content, out |-> [k |-> "pending"]] :
        tags \in GpsWriteTags, names \in SUBSET GpsWriteNames,
        content \in [GpsWriteNames -> GpsWriteSidecars]}

InitGpsWrite == NothingRan /\ probe \in GpsWriteInputs

\* lines 246-263: the write that is issued, what reaches the file, and
\* whether a failure is logged
ApplyGpsWrite(ok) ==
    /\ probe.fn = "gps_write"
    /\ probe.out.k = "pending"
    /\ LET valid_gps == gps_to_write(probe.supplemental_jsons,
                                     get_embedded_gps(probe.tags), probe.content)
       IN  /\ valid_gps.k # "geo" => ok
           /\ probe' = [probe EXCEPT !.out =
                           [k |-> "done", issued |-> valid_gps,
                            written |-> IF ok THEN valid_gps ELSE NoneVal,
                            failure_logged |-> ~ok]]
    /\ UNCHANGED <<disk, run, runs, faults, handled, moves, pass1>>

NextGpsWrite == \E ok \in BOOLEAN : ApplyGpsWrite(ok)
SpecGpsWrite == InitGpsWrite /\ [][NextGpsWrite]_vars

\* The sidecar yields a valid coordinate.
Yields(n) == get_valid_gps_from_supplemental(probe.content[n]).k = "geo"
\* The first matched supplemental sidecar, in sorted path order, that yields
\* a valid coordinate.
FirstYielding(n) ==
    /\ n \in probe.supplemental_jsons
    /\ Yields(n)
    /\ \A m \in probe.supplemental_jsons : StrLess(m, n) => ~Yields(m)

\* C22: a GPS write is issued for a committed file only when its embedded
\* GPS is absent or invalid and some matched supplemental sidecar, in sorted
\* path order, yields a valid coordinate, and the first such coordinate is
\* the one written; a file whose embedded GPS is present and valid never
\* receives a GPS write; Null Island is never written.
C22_GpsWriteGuard ==
    GpsDone("gps_write") =>
        /\ probe.out.issued.k = "geo" =>
               /\ ~Usable(probe.tags)
               /\ \E n \in probe.supplemental_jsons :
                      /\ FirstYielding(n)
                      /\ probe.out.issued =
                             get_valid_gps_from_supplemental(probe.content[n])
        /\ Usable(probe.tags) => probe.out.issued = NoneVal
        /\ probe.out.issued.k = "geo" => ~Rejected(probe.out.issued)
        /\ probe.out.written \in {NoneVal, probe.out.issued}

\* A file whose embedded GPS is Null Island, with two supplemental
\* sidecars: the first in sorted order holds only Null Island, the second a
\* usable geoDataExif, which is written.
C22_Witness ==
    /\ GpsDone("gps_write")
    /\ probe.tags = Geo(0, 0, 0)
    /\ probe.supplemental_jsons = GpsWriteNames
    /\ probe.content["IMG_2.HEIC.SUPPLEMENTAL-METADATA(1).json"] =
           Sidecar("dict", NoneVal, NoneVal, Geo(0, 0, 0), NoneVal)
    /\ probe.content["IMG_2.HEIC.supplemental-metadata.json"] =
           Sidecar("dict", NoneVal, NoneVal, Geo(4070000, -7400000, 10), Geo(5150000, 0, 0))
    /\ probe.out.written = Geo(4070000, -7400000, 10)

(***************************************************************************)
(* Claims about the metadata writes of the commit (checked under Spec)     *)
(***************************************************************************)
\* The step appends one line to the per-file ledger.
LedgerAppend ==
    /\ run.pc # "idle"
    /\ Len(processed_log'.lines) = Len(processed_log.lines) + 1
\* The library holds media file f at its dated destination.
PlacedDated(f) ==
    /\ Plan(f).outcome = "dated"
    /\ \E e \in library : e.file = f /\ e.path = Plan(f).dest_media_path
\* A timestamp write was issued on the destination of f: it succeeded, or
\* its failure is in the metadata-tool failure log.
StampIssued(f) ==
    \/ [path |-> Plan(f).dest_media_path, tag |-> "DateTimeOriginal",
         value |-> Plan(f).date] \in exif_writes
    \/ \E i \in 1..Len(exiftool_failures_log) :
           /\ exiftool_failures_log[i].media = f.path
           /\ exiftool_failures_log[i].reason \in {"primary_json", "supplemental_timestamp"}

\* C23: when the ledger entry of a media file is appended and the file
\* stands in its dated library folder with a timestamp taken from a primary
\* or supplemental sidecar, a timestamp write was issued on the destination
\* before; also in a run that resumes after an interruption.
C23_StampedBeforeLedger ==
    [][(/\ LedgerAppend
        /\ PlacedDated(CurFile)
        /\ StampsTimestamp(Plan(CurFile).timestamp_source))
       => StampIssued(CurFile)]_vars

\* The metadata-tool failure log holds a line for the media path.
FailureLogged(path) ==
    \E i \in 1..Len(exiftool_failures_log) : exiftool_failures_log[i].media = path
\* A file of that path stands at its dated destination.
KeptAtDestination(path) ==
    \E e \in library : e.file.path = path /\ e.path = Plan(e.file).dest_media_path
\* The step is a metadata write that fails.
WriteFails == Len(exiftool_failures_log') = Len(exiftool_failures_log) + 1
\* The commit of the file in work is past its move.
PastMove == run.pc \in {"stamped", "copied", "gps_done"}

\* What a failing write changes, and what follows the last step of a
\* commit that had a failing write.
FailureHandling ==
    /\ WriteFails =>
           /\ library' = library
           /\ workbench' = workbench
           /\ exiftool_failures_log'[Len(exiftool_failures_log')].media = CurPath
           /\ run' = [run EXCEPT !.pc = IF run.pc = "moved" THEN "stamped"
                                        ELSE "gps_done"]
    /\ (run.pc = "gps_done" /\ FailureLogged(CurPath) /\ run'.pc # "idle") =>
           /\ processed_log'.lines = Append(processed_log.lines, CurPath)
           /\ library' = library
           /\ run'.pc = "file"
           /\ run'.idx = run.idx + 1
\* Every file with a line in the failure log stands at its destination and
\* is in the ledger, or its commit is going on, or the process was killed.
FailureKeepsFile ==
    \A i \in 1..Len(exiftool_failures_log) :
        /\ KeptAtDestination(exiftool_failures_log[i].media)
        /\ \/ \E f \in handled : f.path = exiftool_failures_log[i].media
           \/ PastMove /\ CurPath = exiftool_failures_log[i].media
           \/ faults > Len(exiftool_failures_log)

\* C24: when a timestamp or GPS write fails after the move, the move is not
\* rolled back (the file stays at its destination), the failure is appended
\* to the metadata-tool failure log, the remaining steps of the commit are
\* taken, the file is appended to the per-file ledger and the run goes on to
\* the next file.
C24_WriteFailureTolerated == []FailureKeepsFile /\ [][FailureHandling]_vars

\* The GPS write of IMG_2.HEIC failed: the file stands in its dated folder,
\* it is in the ledger, and the run is at a later file of the archive.
C24_Witness ==
    /\ exiftool_failures_log = <<[media |-> "Photos/IMG_2.HEIC", reason |-> "supplemental_gps"]>>
    /\ KeptAtDestination("Photos/IMG_2.HEIC")
    /\ "Photos/IMG_2.HEIC" \in SeqToSet(processed_log.lines)
    /\ run.pc = "file"
    /\ run.idx <= Len(run.media_files)
    /\ StrLess("Photos/IMG_2.HEIC", CurPath)

(***************************************************************************)
(* Claims about errors (checked under Spec)                                *)
(***************************************************************************)
\* The step is the handler of lines 281-285.
ErrorStep == run.pc # "idle" /\ run'.pc # "idle" /\ run'.errors_found = run.errors_found + 1
\* The media files of the list that process_media_files is done with.
Visited ==
    {run.media_files[j] : j \in {i \in 1..Len(run.media_files) : i < run.idx}}
\* What the handler does: the loop goes to the next file of the same list,
\* the ledger and the processed set stay as they are.
ErrorIsolated ==
    ErrorStep =>
        /\ run'.pc = "file"
        /\ run'.idx = run.idx + 1
        /\ run'.media_files = run.media_files
        /\ run'.queue = run.queue
        /\ processed_log' = processed_log
        /\ run'.processed_media_files = run.processed_media_files
        /\ CurPath \notin run'.processed_media_files
        /\ CurPath \notin SeqToSet(processed_log'.lines)
\* Every file the loop is done with is in the processed set or was counted
\* as an error; at the completion step that is every file of the list.
ErrorsCounted ==
    /\ run.pc \in {"file", "clean"} =>
           Cardinality(Visited \ run.processed_media_files) = run.errors_found
    /\ run.pc = "clean" => Visited = SeqToSet(run.media_files)

\* C25: an error raised while one media file is processed is caught at the
\* file boundary: the archive and the run are not aborted, every later file
\* of the list is still processed, the failing file is counted as errored
\* and is added neither to the per-file ledger nor to the processed set.
C25_ErrorAtFileBoundary == []ErrorsCounted /\ [][ErrorIsolated]_vars

\* A live run over b.zip is at the completion step with two errors: the
\* sidecar of Photos/BAD.jpg could not be read, and a sidecar copy failed
\* after the move of a file; the last file of the list is in the ledger.
C25_Witness ==
    /\ run.pc = "clean" /\ run.is_live_run
    /\ CurArchive = "b.zip"
    /\ run.errors_found = 2
    /\ "Photos/BAD.jpg" \notin run.processed_media_files
    /\ run.media_files[Len(run.media_files)] \in SeqToSet(processed_log.lines)
    /\ \E e \in library :
           /\ e.file.arch = "b.zip"
           /\ e.path = Plan(e.file).dest_media_path
           /\ e.file.path \notin run.processed_media_files

\* The archive in work fails: the run leaves it without having processed
\* its media files.
ArchiveFails == run.pc = "item" /\ run'.pc \in {"item", "end"}
\* What the failure of an archive changes.
ArchiveFailureHandling ==
    ArchiveFails =>
        /\ archiveStore' = archiveStore
        /\ CurArchive \in archiveStore'
        /\ work_items_log' = work_items_log
        /\ library' = library
        /\ processed_log' = processed_log
        /\ "fatal" \in run'.log
        /\ run'.queue = Tail(run.queue)
        /\ run'.pc = IF Tail(run.queue) = <<>> THEN "end" ELSE "item"
        /\ PendingArchive =>
               CurArchive \in
                   select_work_items("", FALSE, get_processed_work_items(work_items_log')).items

\* C26: when an archive cannot be opened or its extraction raises, the
\* archive file is left in place, it gets no entry in the work-item ledger,
\* so that a later run selects it again, the failure is logged, and the
\* same run goes on to the next work item.
C26_ArchiveFailureIsolated == [][ArchiveFailureHandling]_vars

\* The first live run selected both archives; a.zip could not be read and
\* has no completion entry, and the run is processing the files of b.zip.
C26_Witness ==
    /\ runs = 1 /\ faults = 1
    /\ run.pc = "file" /\ run.is_live_run /\ run.multi
    /\ run.queue = <<"b.zip">>
    /\ workbench.src = "b.zip"
    /\ work_items_log = <<>>
    /\ "a.zip" \in archiveStore
    /\ run.idx > 1

(***************************************************************************)
(* Claims about the runs that stop at their start (checked under Spec)     *)
(***************************************************************************)
\* The step is a run that the sanity checks end.
SanityExitStep == run.pc = "idle" /\ run'.pc = "idle" /\ run'.log = {"fatal_exit"}

\* C27: a run that finds the JSON repository or the archives directory
\* missing, or no metadata-tool backend, stops before any mutation: no
\* ledger or log is deleted or written, nothing is extracted to the
\* workbench, nothing is written to the library.
C27_SanityExitChangesNothing ==
    [][SanityExitStep =>
          /\ processed_log' = processed_log
          /\ work_items_log' = work_items_log
          /\ path_too_long_log' = path_too_long_log
          /\ exiftool_failures_log' = exiftool_failures_log
          /\ workbench' = workbench
          /\ library' = library
          /\ exif_writes' = exif_writes
          /\ archiveStore' = archiveStore]_vars

\* A run stopped at the sanity checks while the per-file ledger of an
\* earlier live run is on disk with its lines, the workbench holds
\* extracted files and the library holds media.
C27_Witness ==
    /\ run.pc = "idle" /\ run.log = {"fatal_exit"}
    /\ processed_log.exists /\ processed_log.lines # <<>>
    /\ workbench.files # {}
    /\ library # {}

(***************************************************************************)
(* Claims about the ledgers (checked under Spec)                           *)
(***************************************************************************)
\* C28: across any sequence of runs with any options, the work-item ledger
\* and the per-file ledger never lose an entry once it has been written.
C28_LedgersAppendOnly ==
    [][/\ SeqToSet(work_items_log) \subseteq SeqToSet(work_items_log')
       /\ SeqToSet(processed_log.lines) \subseteq SeqToSet(processed_log'.lines)]_vars

\* The step is a status report.
StatusStep == run.pc = "idle" /\ run'.pc = "idle" /\ run'.log = {"status_report"}

\* C30: a run with the status option only reads the ledgers and the issue
\* logs and returns before any selection, extraction, ledger deletion or
\* write: every ledger, log, workbench and library file is unchanged.
C30_StatusChangesNothing ==
    [][StatusStep =>
          /\ processed_log' = processed_log
          /\ work_items_log' = work_items_log
          /\ path_too_long_log' = path_too_long_log
          /\ exiftool_failures_log' = exiftool_failures_log
          /\ workbench' = workbench
          /\ library' = library
          /\ exif_writes' = exif_writes
          /\ archiveStore' = archiveStore
          /\ pass1' = pass1]_vars

\* A status report was made after a live run that completed an archive and
\* left lines in both ledgers and in the path-too-long log.
C30_Witness ==
    /\ run.pc = "idle" /\ run.log = {"status_report"}
    /\ processed_log.exists /\ processed_log.lines # <<>>
    /\ work_items_log # <<>>
    /\ path_too_long_log # <<>>
    /\ library # {}

(***************************************************************************)
(* The work-item keys on their own: process_media_logs lines 31-83 and the *)
(* selection test of select_work_items, applied to two archive basenames   *)
(* on either kind of host. os.path.normcase lower-cases a path on Windows  *)
(* (os.name "nt") and returns it unchanged on a POSIX host.                *)
(***************************************************************************)
HostNames == {"nt", "posix"}
normcase(os_name, path) == IF os_name = "nt" THEN Lower(path) ELSE path
\* str.strip() for names whose only whitespace is the space
RECURSIVE strip(_)
strip(s) ==
    IF s = "" THEN s
    ELSE IF CharAt(s, 1) = " " THEN strip(SubSeq(s, 2, Len(s)))
    ELSE IF CharAt(s, Len(s)) = " " THEN strip(SubSeq(s, 1, Len(s) - 1))
    ELSE s
\* normalize_archive_key on a host
normalize_archive_key_on(os_name, name) == "archive:" \o normcase(os_name, name)
\* normalize_work_item_key for the keys of archives; "" stands for None
normalize_work_item_key(os_name, raw_key) ==
    IF StartsWith(raw_key, "archive:")
    THEN normalize_archive_key_on(os_name, strip(Rest(raw_key, "archive:")))
    ELSE ""
\* log_processed_work_item: the line appended to the ledger, if any
log_processed_work_item(os_name, work_item_key) ==
    IF normalize_work_item_key(os_name, work_item_key) = "" THEN <<>>
    ELSE <<normalize_work_item_key(os_name, work_item_key)>>
\* get_processed_work_items over the lines of the ledger
processed_work_items_of(os_name, lines) ==
    {normalize_work_item_key(os_name, strip(lines[i])) : i \in 1..Len(lines)} \ {""}

KeyNames == {"a.zip", "A.zip", "A.ZIP", "b.zip", "takeout 1.zip", "Takeout 1.ZIP", " a.zip"}
KeyInputs ==
    {[fn |-> "work_item_key", os_name |-> h, recorded |-> n, listed |-> m,
      out |-> [k |-> "pending"]] : h \in HostNames, n \in KeyNames, m \in KeyNames}

InitKeys == NothingRan /\ probe \in KeyInputs

\* 2-process-media.py lines 280-283 for the archive `recorded`, then
\* get_processed_work_items and the test of select_work_items (line 90) for
\* the archive `listed` in a later run.
ApplyKeys ==
    /\ probe.fn = "work_item_key"
    /\ probe.out.k = "pending"
    /\ LET archive_key == normalize_archive_key_on(probe.os_name, probe.recorded)
           lines == log_processed_work_item(probe.os_name, archive_key)
           processed_work_items == processed_work_items_of(probe.os_name, lines)
           listed_key == normalize_archive_key_on(probe.os_name, probe.listed)
       IN  probe' = [probe EXCEPT !.out =
                        [k |-> "done", archive_key |-> archive_key, lines |-> lines,
                         listed_key |-> listed_key,
                         selected |-> listed_key \notin processed_work_items]]
    /\ UNCHANGED <<disk, run, runs, faults, handled, moves, pass1>>

NextKeys == ApplyKeys
SpecKeys == InitKeys /\ [][NextKeys]_vars

\* The two basenames differ at most in the case of letters.
SameButCase(a, b) == Lower(a) = Lower(b)

\* C29: two archive basenames that differ only in letter case have the same
\* work-item key, so an archive recorded as completed is not selected again
\* under a differently-cased name; and normalizing a normalized work-item
\* key returns it unchanged.
C29_CaseInsensitiveKeys ==
    GpsDone("work_item_key") =>
        /\ SameButCase(probe.recorded, probe.listed) =>
               /\ probe.out.archive_key = probe.out.listed_key
               /\ ~probe.out.selected
        /\ normalize_work_item_key(probe.os_name, probe.out.archive_key) =
               probe.out.archive_key
        /\ \A i \in 1..Len(probe.out.lines) :
               normalize_work_item_key(probe.os_name, probe.out.lines[i]) = probe.out.lines[i]

(***************************************************************************)
(* Claims about the order of the work of a run (checked under Spec)        *)
(***************************************************************************)
\* The work items still to do are in ascending order of their names (the
\* sort key of line 231 is the lower-cased base name), each once.
QueueAscending ==
    \A i, j \in 1..Len(run.queue) :
        i < j => StrLess(Lower(run.queue[i]), Lower(run.queue[j]))
\* The media files of the item in work are in ascending order of their paths.
FilesAscending ==
    \A i, j \in 1..Len(run.media_files) :
        i < j => StrLess(run.media_files[i], run.media_files[j])
\* In a live run the item whose files are all done and which is about to be
\* left has its completion entry as the last line of the work-item ledger.
MarkedBeforeLeft ==
    (run.pc = "clean" /\ run.is_live_run)
        => /\ work_items_log # <<>>
           /\ work_items_log[Len(work_items_log)] = normalize_archive_key(CurArchive)
\* A step of a running process: the only archive extracted is the head of
\* the queue, the queue loses nothing but its head, the files are taken one
\* after the other, only the file in work reaches a terminal state or is
\* moved, and the ledger grows only by the key of the item in work once all
\* its files were visited.
OneAtATime ==
    (run.pc # "idle" /\ run'.pc # "idle")
        => /\ run'.queue \in {run.queue, Tail(run.queue)}
           /\ (run'.queue # run.queue) => run.pc \in {"item", "clean"}
           /\ (~(workbench'.files \subseteq workbench.files)
                   \/ (run'.media_files # run.media_files /\ run'.media_files # <<>>))
                  => /\ workbench'.src = Head(run.queue)
                     /\ run'.queue = run.queue
                     /\ run'.idx = 1
           /\ (run'.media_files = run.media_files)
                  => run'.idx \in {run.idx, run.idx + 1}
           /\ (handled' # handled \/ moves' # moves)
                  => /\ run.idx \in 1..Len(run.media_files)
                     /\ handled' \subseteq handled \cup {CurFile}
                     /\ \A f \in ArchiveMedia : f # CurFile => moves'[f] = moves[f]
           /\ (work_items_log' # work_items_log)
                  => /\ work_items_log' =
                            Append(work_items_log, normalize_archive_key(Head(run.queue)))
                     /\ run.idx > Len(run.media_files)
                     /\ run'.queue = run.queue
WorkInOrder == QueueAscending /\ FilesAscending /\ MarkedBeforeLeft

\* C31: within a run the work items are processed one at a time in
\* ascending order of their names, the media files of an item one at a time
\* in ascending path order, and the completion entry of an item is in the
\* ledger before the extraction of the next item begins.
C31_SequentialOrder == []WorkInOrder /\ [][OneAtATime]_vars

\* The first run, live, over both archives: a.zip was completed and marked,
\* b.zip is extracted and its second file is in work.
C31_Witness ==
    /\ runs = 1
    /\ run.is_live_run
    /\ run.pc = "file"
    /\ run.queue = <<"b.zip">>
    /\ run.idx = 2
    /\ workbench.src = "b.zip"
    /\ work_items_log = <<normalize_archive_key("a.zip")>>

(***************************************************************************)
(* 1-extract-json.py, one JSON member at a time, over archives that hold   *)
(* the same base name in several folders, an identical duplicate and no    *)
(* JSON at all. The disk of Pass 1 is pass1, the local variables of main   *)
(* are in probe.                                                           *)
(***************************************************************************)
Pass1Pool == {"t1.zip", "t2.zip", "t3.zip"}
ZipEntry(name, content) == [name |-> name, content |-> content]
\* archive.namelist() with the content of each member: t1.zip has an album
\* file metadata.json in three folders, t2.zip repeats a sidecar of t1.zip
\* and has one more metadata.json, t3.zip holds a video only.
namelist(zip_filename) ==
    CASE zip_filename = "t1.zip" ->
             <<ZipEntry("Takeout/Album1/metadata.json", "v1"),
               ZipEntry("Takeout/Album1/IMG_1.jpg", "media"),
               ZipEntry("Takeout/Album1/IMG_1.jpg.json", "v1"),
               ZipEntry("Takeout/Album2/metadata.json", "v2"),
               ZipEntry("Takeout/Album3/metadata.json", "v3")>>
      [] zip_filename = "t2.zip" ->
             <<ZipEntry("Takeout/Album1/IMG_1.jpg.json", "v1"),
               ZipEntry("Takeout/Album4/metadata.json", "v4")>>
      [] zip_filename = "t3.zip" ->
             <<ZipEntry("Takeout/Videos/MOV_1.mp4", "media")>>
      [] OTHER -> <<>>
\* line 78
json_files_in_archive(zip_filename) ==
    SelectSeq(namelist(zip_filename), LAMBDA e : LowerEndsWith(e.name, ".json"))

\* A directory as a function from file names to contents: a file is
\* written (replacing the one of that name), or removed.
WriteFile(dir, name, content) ==
    [n \in DOMAIN dir \cup {name} |-> IF n = name THEN content ELSE dir[n]]
RemoveFile(dir, name) == [n \in DOMAIN dir \ {name} |-> dir[n]]

\* line 100
conflict_filename(base_filename, zip_filename) ==
    splitext_root(base_filename) \o "_" \o zip_filename \o ".json"

\* lines 84-107 for one JSON member: the member is written to the conflicts
\* folder under its base name, then removed (identical to the repository's
\* file), moved to its conflict name (different), or moved to the repository
\* (new name). shutil.move replaces a file that is at the destination.
ExtractMember(p, zip_filename, e) ==
    LET base_filename == basename(e.name)
        temp == WriteFile(p.json_conflicts, base_filename, e.content)
    IN  IF base_filename \in DOMAIN p.json_repository
        THEN IF p.json_repository[base_filename] = e.content
             THEN [p EXCEPT !.json_conflicts = RemoveFile(temp, base_filename)]
             ELSE [p EXCEPT !.json_conflicts =
                       WriteFile(RemoveFile(temp, base_filename),
                                 conflict_filename(base_filename, zip_filename),
                                 e.content)]
        ELSE [p EXCEPT !.json_conflicts = RemoveFile(temp, base_filename),
                       !.json_repository = WriteFile(@, base_filename, e.content)]

\* lines 29-35
get_processed_archives(log) == {strip(log[i]) : i \in 1..Len(log)}

\* main is not running; `last` tells how the last run ended.
Pass1Idle(last) ==
    [fn |-> "pass1", pc |-> "idle", todo |-> {}, cur |-> "", idx |-> 0,
     all_read |-> TRUE, last |-> last]

\* lines 42-68: the log is read and the archives to process are listed; with
\* none the run returns at line 66
Pass1Main ==
    /\ probe.pc = "idle"
    /\ runs < MaxRuns
    /\ runs' = runs + 1
    /\ LET processed_archives == get_processed_archives(pass1.processed_archives_log)
           all_zip_files == {f \in archiveStore : LowerEndsWith(f, ".zip")}
           to_process == {f \in all_zip_files : f \notin processed_archives}
       IN  probe' = IF to_process = {} THEN Pass1Idle("up_to_date")
                    ELSE [Pass1Idle(probe.last) EXCEPT !.pc = "archive", !.todo = to_process]
    /\ UNCHANGED <<disk, run, faults, handled, moves, pass1>>

\* The loop of line 71 goes to its next archive.
Pass1Continue(pr) == [pr EXCEPT !.pc = "archive", !.todo = @ \ {pr.cur}, !.cur = "", !.idx = 0]

\* lines 72-81: the next archive of the listing is opened; one without JSON
\* members is left by `continue`
Pass1Open(zip_filename) ==
    /\ probe.pc = "archive"
    /\ zip_filename \in probe.todo
    /\ probe' = IF json_files_in_archive(zip_filename) = <<>>
                THEN Pass1Continue([probe EXCEPT !.cur = zip_filename])
                ELSE [probe EXCEPT !.pc = "json", !.cur = zip_filename, !.idx = 1]
    /\ UNCHANGED <<disk, run, runs, faults, handled, moves, pass1>>

\* lines 114-119: zipfile.BadZipFile
Pass1BadZipFile(zip_filename) ==
    /\ probe.pc = "archive"
    /\ zip_filename \in probe.todo
    /\ faults < MaxFaults
    /\ faults' = faults + 1
    /\ pass1' = [pass1 EXCEPT !.corrupt_archives_log = Append(@, zip_filename)]
    /\ probe' = [Pass1Continue([probe EXCEPT !.cur = zip_filename]) EXCEPT !.all_read = FALSE]
    /\ UNCHANGED <<disk, run, runs, handled, moves>>

\* lines 83-107: one JSON member
Pass1ExtractMember ==
    /\ probe.pc = "json"
    /\ probe.idx <= Len(json_files_in_archive(probe.cur))
    /\ pass1' = ExtractMember(pass1, probe.cur, json_files_in_archive(probe.cur)[probe.idx])
    /\ probe' = [probe EXCEPT !.idx = @ + 1]
    /\ UNCHANGED <<disk, run, runs, faults, handled, moves>>

\* lines 120-121: reading or writing a member raises (a damaged member, a
\* full disk); the archive is left
Pass1Unexpected ==
    /\ probe.pc = "json"
    /\ probe.idx <= Len(json_files_in_archive(probe.cur))
    /\ faults < MaxFaults
    /\ faults' = faults + 1
    /\ probe' = [Pass1Continue(probe) EXCEPT !.all_read = FALSE]
    /\ UNCHANGED <<disk, run, runs, handled, moves, pass1>>

\* lines 109-112: log_processed_archive(zip_filename)
Pass1Log ==
    /\ probe.pc = "json"
    /\ probe.idx > Len(json_files_in_archive(probe.cur))
    /\ pass1' = [pass1 EXCEPT !.processed_archives_log = Append(@, probe.cur)]
    /\ probe' = Pass1Continue(probe)
    /\ UNCHANGED <<disk, run, runs, faults, handled, moves>>

\* lines 123-125: the end of main
Pass1End ==
    /\ probe.pc = "archive"
    /\ probe.todo = {}
    /\ probe' = Pass1Idle(IF probe.all_read THEN "all_read" ELSE "some_unread")
    /\ UNCHANGED <<disk, run, runs, faults, handled, moves, pass1>>

\* The process is killed.
Pass1Kill ==
    /\ probe.pc # "idle"
    /\ faults < MaxFaults
    /\ faults' = faults + 1
    /\ probe' = Pass1Idle("killed")
    /\ UNCHANGED <<disk, run, runs, handled, moves, pass1>>

\* Some of the archives are in takeout-archives, next to a media file;
\* Pass 1 never ran.
InitPass1 ==
    /\ archiveStore \in {S \cup {"LOOSE.jpg"} : S \in SUBSET Pass1Pool \ {{}}}
    /\ workbench = EmptyWorkbench
    /\ library = {}
    /\ processed_log = [exists |-> FALSE, lines |-> <<>>]
    /\ work_items_log = <<>>
    /\ path_too_long_log = <<>>
    /\ exiftool_failures_log = <<>>
    /\ exif_writes = {}
    /\ run = Idle
    /\ runs = 0
    /\ faults = 0
    /\ handled = {}
    /\ moves = [f \in ArchiveMedia |-> 0]
    /\ pass1 = Pass1Start
    /\ probe = Pass1Idle("none")

NextPass1 ==
    \/ Pass1Main
    \/ \E zip_filename \in Pass1Pool : Pass1Open(zip_filename)
    \/ \E zip_filename \in Pass1Pool : Pass1BadZipFile(zip_filename)
    \/ Pass1ExtractMember
    \/ Pass1Unexpected
    \/ Pass1Log
    \/ Pass1End
    \/ Pass1Kill

SpecPass1 == InitPass1 /\ [][NextPass1]_vars

\* The JSON member was extracted, skipped as an identical duplicate, or
\* filed as a conflict of its archive.
MemberSettled(p, zip_filename, e) ==
    \/ /\ basename(e.name) \in DOMAIN p.json_repository
       /\ p.json_repository[basename(e.name)] = e.content
    \/ conflict_filename(basename(e.name), zip_filename) \in DOMAIN p.json_conflicts
\* A step that appends to the processed log appends the archive in work,
\* after every JSON member of it was settled.
LoggedWhenSettled ==
    (pass1'.processed_archives_log # pass1.processed_archives_log)
        => /\ pass1'.processed_archives_log =
                  Append(pass1.processed_archives_log, probe.cur)
           /\ probe.cur \in archiveStore
           /\ \A i \in 1..Len(json_files_in_archive(probe.cur)) :
                  MemberSettled(pass1, probe.cur, json_files_in_archive(probe.cur)[i])
\* After a run that read every archive, the next run has nothing to do.
NothingLeftAfterFullRun ==
    (probe.pc = "idle" /\ probe.last = "all_read")
        => {f \in archiveStore : LowerEndsWith(f, ".zip")}
               \subseteq get_processed_archives(pass1.processed_archives_log)

\* C32: Pass 1 appends an archive name to its processed log only after
\* every JSON file of the archive was extracted, skipped as an identical
\* duplicate or filed as a conflict; and after a run in which every archive
\* could be read, an immediate second run finds no archive left to process.
C32_Pass1Complete == []NothingLeftAfterFullRun /\ [][LoggedWhenSettled]_vars

\* No file of the repository is changed or removed by the step.
RepositoryKept ==
    \A n \in DOMAIN pass1.json_repository :
        /\ n \in DOMAIN pass1'.json_repository
        /\ pass1'.json_repository[n] = pass1.json_repository[n]
\* No version stored in the conflicts folder is changed or removed by the step.
ConflictsKept ==
    \A c \in DOMAIN pass1.json_conflicts :
        /\ c \in DOMAIN pass1'.json_conflicts
        /\ pass1'.json_conflicts[c] = pass1.json_conflicts[c]
\* The step handles a JSON member whose base name is in the repository: an
\* identical one leaves no file, a different one is in the conflicts folder
\* under the conflict name of its archive.
SameNamePolicy ==
    (/\ probe.pc = "json"
     /\ pass1' # pass1 \/ probe'.idx = probe.idx + 1
     /\ probe.idx <= Len(json_files_in_archive(probe.cur))
     /\ basename(json_files_in_archive(probe.cur)[probe.idx].name)
            \in DOMAIN pass1.json_repository)
        => LET e == json_files_in_archive(probe.cur)[probe.idx]
               c == conflict_filename(basename(e.name), probe.cur)
           IN  IF pass1.json_repository[basename(e.name)] = e.content
               THEN DOMAIN pass1'.json_conflicts = DOMAIN pass1.json_conflicts
               ELSE /\ c \in DOMAIN pass1'.json_conflicts
                    /\ pass1'.json_conflicts[c] = e.content
Pass1Preserves == RepositoryKept /\ ConflictsKept /\ SameNamePolicy

\* C38: Pass 1 never changes a JSON file already in the repository: a
\* same-named JSON of an archive is dropped when its content is identical
\* and stored in the conflicts folder otherwise, and no version already
\* stored in the conflicts folder is lost when several same-named JSONs
\* conflict.
C38_NoJsonLost == [][Pass1Preserves]_vars

(***************************************************************************)
(* The start of a run (2-process-media.py lines 216-234) over listings and *)
(* ledgers of three archives. probe holds the options as the command line  *)
(* gives them.                                                             *)
(***************************************************************************)
BatchPool == {"a.zip", "B.zip", "c.zip"}
\* --batch-size is an int of any sign, or is not given.
BatchOptions == {[given |-> TRUE, b |-> n] : n \in -1..3} \cup {[given |-> FALSE, b |-> 0]}
\* The options of a run: --batch-size, --archive-name (an archive, a
\* standalone file, or not given) and --force-extract.
StartOptions ==
    {[fn |-> "start", given |-> o.given, b |-> o.b,
      archive_name |-> a, force_extract |-> f] :
        o \in BatchOptions, a \in BatchPool \cup {"", "LOOSE.jpg"}, f \in BOOLEAN}
\* The work-item ledger that marks the archives of C complete.
LedgerOf(C) == [i \in 1..Cardinality(C) |-> normalize_archive_key(SortedByLower(C)[i])]

InitStart ==
    /\ archiveStore \in {S \cup {"LOOSE.jpg"} : S \in SUBSET BatchPool}
    /\ workbench = EmptyWorkbench
    /\ library = {}
    /\ processed_log = [exists |-> FALSE, lines |-> <<>>]
    /\ work_items_log \in {LedgerOf(C) : C \in SUBSET BatchPool}
    /\ path_too_long_log = <<>>
    /\ exiftool_failures_log = <<>>
    /\ exif_writes = {}
    /\ run = Idle
    /\ runs = 0
    /\ faults = 0
    /\ handled = {}
    /\ moves = [f \in ArchiveMedia |-> 0]
    /\ pass1 = Pass1Done
    /\ probe \in StartOptions

\* run_pass2 is called with the options; without --batch-size batch_size
\* is None.
batch_size_of(o) == IF o.given THEN o.b ELSE 0
NextStart ==
    \E is_live_run \in BOOLEAN :
        StartRun(is_live_run, batch_size_of(probe), probe.archive_name,
                 probe.force_extract, FALSE)

SpecStart == InitStart /\ [][NextStart]_vars

\* The archives of the listing that the ledger does not mark complete, in
\* the order of their names (lower-cased, the sort key of the run).
PendingItems ==
    SortedByLower({z \in archiveStore :
                      /\ LowerEndsWith(z, ".zip")
                      /\ normalize_archive_key(z) \notin SeqToSet(work_items_log)})
FirstOf(q, n) == IF n <= 0 THEN <<>> ELSE IF Len(q) > n THEN SubSeq(q, 1, n) ELSE q

\* C33: with a batch size b a run processes at most b work items, the first
\* b pending ones in the order of their names; every other pending item is
\* not in the run's list (and so stays unmarked for a later run).
C33_BatchLimit ==
    (probe.given /\ probe.archive_name = "" /\ runs > 0)
        => /\ Len(run.queue) <= (IF probe.b > 0 THEN probe.b ELSE 0)
           /\ run.queue = FirstOf(PendingItems, probe.b)

(***************************************************************************)
(* Claims about the selection of the work items (checked under SpecStart)  *)
(***************************************************************************)
\* The completed set as a run loads it.
CompletedSet == get_processed_work_items(work_items_log)
\* The .zip files of the archives directory that are not in the completed set.
NotCompleted ==
    {z \in archiveStore :
        LowerEndsWith(z, ".zip") /\ normalize_archive_key(z) \notin CompletedSet}
\* What a run started with these options has selected: without an archive
\* name the archives that are not completed, cut to the batch; a named
\* archive that is completed makes the run end at once with nothing
\* changed, unless the force flag is set: then it is the run's work item
\* (a negative batch size cuts it off the list again).
SelectedAsClaimed(batch_size, archive_name, force_extract) ==
    IF archive_name = ""
    THEN /\ SeqToSet(run'.queue) \subseteq NotCompleted
         /\ batch_size = 0 => SeqToSet(run'.queue) = NotCompleted
         /\ Len(run'.queue) = Cardinality(SeqToSet(run'.queue))
         /\ (NotCompleted = {}) = (run'.pc = "idle")
    ELSE (/\ archive_name \in archiveStore
          /\ LowerEndsWith(archive_name, ".zip")
          /\ normalize_archive_key(archive_name) \in CompletedSet)
            => IF force_extract
               THEN batch_size >= 0 => (run'.pc = "item" /\ run'.queue = <<archive_name>>)
               ELSE /\ run' = Idle
                    /\ disk' = disk
                    /\ handled' = handled
                    /\ moves' = moves
SelectionAsClaimed ==
    (run.pc = "idle" /\ runs' = runs + 1)
        => SelectedAsClaimed(batch_size_of(probe), probe.archive_name, probe.force_extract)

\* C34: without an archive name the selected work items are exactly the
\* .zip files of the archives directory whose normalized key is not in the
\* loaded completed set; a named archive that is marked completed makes the
\* run abort without processing anything when the force flag is not set,
\* and is processed again when it is set.
C34_Selection == [][SelectionAsClaimed]_vars

\* B.zip is marked completed (a.zip is not); the run was started with the
\* name of B.zip and the force flag and has B.zip as its work item.
C34_Witness ==
    /\ runs = 1
    /\ probe.archive_name = "B.zip"
    /\ probe.force_extract
    /\ archiveStore = BatchPool \cup {"LOOSE.jpg"}
    /\ CompletedSet = {normalize_archive_key("B.zip")}
    /\ run.pc = "item"
    /\ run.queue = <<"B.zip">>

(***************************************************************************)
(* process_media_exif.run_exiftool and run_exiftool_read on their own: the *)
(* two backends (exiftool.exe, perl with the exiftool script) exist or     *)
(* not, and each answers a call with a return code and with or without     *)
(* output.                                                                 *)
(***************************************************************************)
\* A backend: whether its file exists, and what subprocess.run gives when
\* it is called.
Backends == [exists : BOOLEAN, returncode : {0, 1}, stdout : {"", "tags"}]
\* The outcome of a call: the completed process that is returned with the
\* backends that were run, or the exception raised.
Returned(from, calls) == [k |-> "return", from |-> from, calls |-> calls]
Raised(exception, calls) == [k |-> "raise", from |-> exception, calls |-> calls]

\* A write call that never falls back to the perl script.
run_exiftool_NoFallback(exe, perl) ==
    IF exe.exists
    THEN IF exe.returncode = 0 THEN Returned("exe", <<"exe">>)
         ELSE Raised("RuntimeError", <<"exe">>)
    ELSE IF perl.exists
    THEN IF perl.returncode = 0 THEN Returned("perl", <<"perl">>)
         ELSE Raised("RuntimeError", <<"perl">>)
    ELSE Raised("FileNotFoundError", <<>>)
\* lines 88-132
run_exiftool(exe, perl) ==
    IF exe.exists
    THEN IF exe.returncode = 0 THEN Returned("exe", <<"exe">>)
         ELSE IF perl.exists
         THEN IF perl.returncode = 0 THEN Returned("perl", <<"exe", "perl">>)
              ELSE Raised("RuntimeError", <<"exe", "perl">>)
         ELSE Raised("RuntimeError", <<"exe">>)
    ELSE IF perl.exists
    THEN IF perl.returncode = 0 THEN Returned("perl", <<"perl">>)
         ELSE Raised("RuntimeError", <<"perl">>)
    ELSE Raised("FileNotFoundError", <<>>)

\* line 143-144
has_stdout(cp) == cp.stdout # ""
\* lines 135-163
run_exiftool_read(exe, perl) ==
    IF exe.exists
    THEN IF exe.returncode = 0 \/ has_stdout(exe) THEN Returned("exe", <<"exe">>)
         ELSE IF perl.exists
         THEN IF perl.returncode = 0 \/ has_stdout(perl)
              THEN Returned("perl", <<"exe", "perl">>)
              ELSE Raised("RuntimeError", <<"exe", "perl">>)
         ELSE Raised("RuntimeError", <<"exe">>)
    ELSE IF perl.exists
    THEN IF perl.returncode = 0 \/ has_stdout(perl) THEN Returned("perl", <<"perl">>)
         ELSE Raised("RuntimeError", <<"perl">>)
    ELSE Raised("FileNotFoundError", <<>>)

ExifInputs ==
    {[fn |-> v, exe |-> e, perl |-> p, out |-> [k |-> "none"]] :
        v \in {"run_exiftool", "run_exiftool_read"}, e \in Backends, p \in Backends}

InitExif == NothingRan /\ probe \in ExifInputs

ApplyExiftool ==
    /\ probe.fn = "run_exiftool"
    /\ probe.out.k = "none"
    /\ probe' = [probe EXCEPT !.out = run_exiftool(probe.exe, probe.perl)]
    /\ UNCHANGED <<disk, run, runs, faults, handled, moves, pass1>>
ApplyExiftoolRead ==
    /\ probe.fn = "run_exiftool_read"
    /\ probe.out.k = "none"
    /\ probe' = [probe EXCEPT !.out = run_exiftool_read(probe.exe, probe.perl)]
    /\ UNCHANGED <<disk, run, runs, faults, handled, moves, pass1>>

NextExif == ApplyExiftool \/ ApplyExiftoolRead
SpecExif == InitExif /\ [][NextExif]_vars

\* What a variant takes for a success: return code 0, and for the read
\* variant also a non-zero code with output.
Succeeds(variant, b) ==
    b.returncode = 0 \/ (variant = "run_exiftool_read" /\ b.stdout # "")
\* The backends a call may use, in their order.
Available(exe, perl) ==
    (IF exe.exists THEN <<"exe">> ELSE <<>>) \o (IF perl.exists THEN <<"perl">> ELSE <<>>)
BackendOf(pr, name) == IF name = "exe" THEN pr.exe ELSE pr.perl
\* The call ran the native executable first if it exists and the script
\* only with the executable missing or failed; it returned the result of
\* the first backend that succeeded, and raised if none did or none exists.
FallbackAsClaimed(pr) ==
    LET avail == Available(pr.exe, pr.perl)
        good == {i \in 1..Len(avail) : Succeeds(pr.fn, BackendOf(pr, avail[i]))}
        first == CHOOSE i \in good : \A j \in good : i <= j
    IN  /\ pr.exe.exists => (pr.out.calls # <<>> /\ pr.out.calls[1] = "exe")
        /\ ("perl" \in SeqToSet(pr.out.calls))
              <=> (pr.perl.exists /\ (~pr.exe.exists \/ ~Succeeds(pr.fn, pr.exe)))
        /\ ("exe" \in SeqToSet(pr.out.calls)) <=> pr.exe.exists
        /\ IF good # {}
           THEN /\ pr.out.k = "return"
                /\ pr.out.from = avail[first]
                /\ pr.out.calls = SubSeq(avail, 1, first)
           ELSE /\ pr.out.k = "raise"
                /\ pr.out.calls = avail
                /\ (avail = <<>>) <=> (pr.out.from = "FileNotFoundError")

\* C35: a write call of the metadata tool tries the native executable first
\* when it exists and runs the perl script only if the executable is
\* missing or returned a non-zero code; it returns the first successful
\* result and raises when every available backend fails or none exists;
\* the read variant differs only in taking a non-zero result with output
\* for a success.
C35_BackendFallback == (probe.out.k # "none") => FallbackAsClaimed(probe)

\* The executable failed a write call with output, and the perl script
\* was run and succeeded.
C35_Witness ==
    /\ probe.fn = "run_exiftool"
    /\ probe.exe = [exists |-> TRUE, returncode |-> 1, stdout |-> "tags"]
    /\ probe.perl = [exists |-> TRUE, returncode |-> 0, stdout |-> ""]
    /\ probe.out = Returned("perl", <<"exe", "perl">>)

(***************************************************************************)
(* The fields of a GPS block: lines 72-74 and 87-89 of                     *)
(* get_valid_gps_from_supplemental applied to a block whose latitude,      *)
(* longitude and altitude are each missing, a number, a string or null.    *)
(***************************************************************************)
\* The key is not in the block.
Missing == [k |-> "missing", v |-> 0]
\* float(block.get(key, 0)): the number, or the exception raised
\* (ValueError for a string that is no number, TypeError for null).
float_of(field) ==
    IF field.k = "missing" THEN IntVal(0)
    ELSE IF field.k \in {"int", "str"} THEN IntVal(field.v)
    ELSE RaiseVal
\* A block that lacks an axis is taken for no block at all.
geo_block_BothAxes(latitude, longitude, altitude) ==
    IF latitude.k = "missing" \/ longitude.k = "missing" THEN NoneVal
    ELSE IF RaiseVal \in {float_of(latitude), float_of(longitude), float_of(altitude)}
    THEN BadStr
    ELSE Geo(float_of(latitude).v, float_of(longitude).v, float_of(altitude).v)
\* The block as the validity test sees it: nothing for an empty object
\* (lines 70 and 86), BadStr when a conversion raises, else the coordinate
\* with 0 for every missing field.
geo_block(latitude, longitude, altitude) ==
    IF latitude.k = "missing" /\ longitude.k = "missing" /\ altitude.k = "missing"
    THEN NoneVal
    ELSE IF RaiseVal \in {float_of(latitude), float_of(longitude), float_of(altitude)}
    THEN BadStr
    ELSE Geo(float_of(latitude).v, float_of(longitude).v, float_of(altitude).v)

\* Values of an axis: missing, inside the band, on its edge, far from it,
\* as a number or as a string, no number, null.
AxisFields ==
    {Missing, IntVal(0), IntVal(9), IntVal(10), IntVal(-10), StrVal(5150000), BadStr, NoneVal}
AltitudeFields == {Missing, IntVal(0), IntVal(-1000000), BadStr}
BlockInputs ==
    {[fn |-> "gps_block", block |-> b, latitude |-> lat, longitude |-> lon,
      altitude |-> alt, out |-> [k |-> "pending"]] :
        b \in {"geoDataExif", "geoData"},
        lat \in AxisFields, lon \in AxisFields, alt \in AltitudeFields}

InitBlock == NothingRan /\ probe \in BlockInputs

\* get_valid_gps_from_supplemental on a sidecar that has this one block
ApplyBlockGps ==
    /\ probe.fn = "gps_block"
    /\ probe.out.k = "pending"
    /\ LET b == geo_block(probe.latitude, probe.longitude, probe.altitude)
           content == IF probe.block = "geoDataExif"
                      THEN Sidecar("dict", NoneVal, NoneVal, b, NoneVal)
                      ELSE Sidecar("dict", NoneVal, NoneVal, NoneVal, b)
       IN  probe' = [probe EXCEPT !.out =
                        [k |-> "done", gps |-> get_valid_gps_from_supplemental(content)]]
    /\ UNCHANGED <<disk, run, runs, faults, handled, moves, pass1>>

NextBlock == ApplyBlockGps
SpecBlock == InitBlock /\ [][NextBlock]_vars

\* The field is in the block and is a number or a string of a number.
Numeric(field) == field.k \in {"int", "str"}
\* Exactly one of latitude and longitude is in the block, and what is in
\* the block converts.
OneAxis(pr) ==
    /\ (pr.latitude.k = "missing") # (pr.longitude.k = "missing")
    /\ \A field \in {pr.latitude, pr.longitude, pr.altitude} :
           field.k # "missing" => Numeric(field)
PresentAxis(pr) == IF pr.latitude.k = "missing" THEN pr.longitude ELSE pr.latitude
NumberOr0(field) == IF field.k = "missing" THEN 0 ELSE field.v

\* C36: in a GPS block of a sidecar where only one of latitude and
\* longitude is present, the missing axis and a missing altitude are taken
\* as 0, and the block yields that coordinate exactly when the present axis
\* has a magnitude of at least 0.0001 (10 units).
C36_MissingAxisIsZero ==
    (GpsDone("gps_block") /\ OneAxis(probe))
        => probe.out.gps =
               IF Abs(PresentAxis(probe).v) >= 10
               THEN Geo(NumberOr0(probe.latitude), NumberOr0(probe.longitude),
                        NumberOr0(probe.altitude))
               ELSE NoneVal

\* A geoData block that holds a longitude on the edge of the band and
\* nothing else yielded (0, 0.0001, 0).
C36_Witness ==
    /\ GpsDone("gps_block")
    /\ probe.block = "geoData"
    /\ probe.latitude = Missing
    /\ probe.longitude = IntVal(10)
    /\ probe.altitude = Missing
    /\ probe.out.gps = Geo(0, 10, 0)

(***************************************************************************)
(* Claims about the per-file ledger (checked under Spec)                   *)
(***************************************************************************)
\* The step skips the file in work as already processed (lines 126-128).
SkipStep ==
    /\ AtFile
    /\ CurPath \in run.processed_media_files
    /\ run'.pc = "file"
    /\ run'.idx = run.idx + 1

\* C37: a media file is skipped as already processed only if that very
\* file was committed, collision-skipped or diverted in this or an earlier
\* run: an entry of the per-file ledger written for a file of one archive
\* never makes a live run skip another media file that a different archive
\* put at the same workbench path.
C37_SkipsOnlyHandledFile ==
    [][(run.is_live_run /\ SkipStep) => CurFile \in handled]_vars

(***************************************************************************)
(* Claims about the suffixes of the supplemental index (checked under      *)
(* SpecNames)                                                              *)
(***************************************************************************)
\* The groups the index path takes for a duplicate suffix of a name:
\* build_supplemental_index (lines 51-55) and
\* find_all_supplemental_for_basename (lines 76-82) both ask
\* extract_google_suffix about every variant of the name.
IndexSuffixes(filename) ==
    {extract_google_suffix(v) : v \in normalize_title_variants(filename)} \ {""}
\* The keys build_supplemental_index files a sidecar of the media name under.
IndexKeys(media_filename) ==
    UNION {BaseKeysOf(v) : v \in normalize_title_variants(media_filename)}

\* C39: the supplemental-index path recognises exactly the duplicate
\* suffixes that extract_strict_media_suffix recognises: a group is a
\* duplicate suffix for one if and only if it is for the other, and a name
\* without a duplicate suffix (a 4-digit group such as (2020)) is indexed
\* under its own name only.
C39_SameSuffixes ==
    GpsDone("extract_strict_media_suffix")
        => /\ IndexSuffixes(probe.media_filename) =
                  (IF probe.out.suffix = "" THEN {} ELSE {probe.out.suffix})
           /\ probe.out.suffix = ""
                  => IndexKeys(probe.media_filename) = {Lower(probe.media_filename)}

(***************************************************************************)
(* The timestamp of a media file without primary sidecar, as               *)
(* recover_media_with_fallback and as process_media_files resolve it       *)
(* (SpecFallback)                                                          *)
(* probe: the embedded value, the supplemental sidecars of the file, their *)
(* contents, and the order in which find_all_supplemental_for_basename     *)
(* lists them (the order of os.listdir, which is not fixed).               *)
(***************************************************************************)
\* process_media_recovery.py lines 93-104: the embedded date, else the
\* timestamp of all_supplemental[0], else no date (return False, None)
RecoverDate(embedded, all_supplemental, content) ==
    IF embedded.k = "int" THEN Resolved(embedded.v, "exif")
    ELSE IF all_supplemental = <<>> THEN Resolved(0, "none")
    ELSE LET timestamp == get_timestamp_from_json(content[Head(all_supplemental)])
         IN  IF timestamp.k = "raise" THEN Resolved(0, "error")
             ELSE IF timestamp.k = "int" /\ timestamp.v # 0   \* if timestamp:
             THEN Resolved(timestamp.v, "supplemental")
             ELSE Resolved(0, "none")

\* The orders in which a directory listing can give the files of S.
ListdirOrders(S) ==
    {q \in [1..Cardinality(S) -> S] : \A n \in S : \E i \in DOMAIN q : q[i] = n}

FallbackInputs ==
    UNION {{[fn |-> "fallback", embedded |-> e, supplemental_jsons |-> S,
             all_supplemental |-> q, content |-> c,
             recovered |-> [k |-> "pending"], out |-> [k |-> "pending"]] :
               e \in EmbeddedSamples, q \in ListdirOrders(S),
               c \in [S -> SidecarSamples]} :
           S \in SUBSET ProbeSupplemental}

InitFallback == NothingRan /\ probe \in FallbackInputs

\* recover_media_with_fallback, lines 93-104
ApplyRecoverDate ==
    /\ probe.fn = "fallback"
    /\ probe.recovered.k = "pending"
    /\ LET r == RecoverDate(probe.embedded, probe.all_supplemental, probe.content)
       IN  probe' = [probe EXCEPT !.recovered =
                        [k |-> "done", date |-> r.date, reason |-> r.source]]
    /\ UNCHANGED <<disk, run, runs, faults, handled, moves, pass1>>

\* process_media_files, lines 141-157, for a file without primary sidecar
ApplyProcessDate ==
    /\ probe.fn = "fallback"
    /\ probe.out.k = "pending"
    /\ LET r == ResolveTimestamp(probe.embedded, <<>>,
                                 Sorted(probe.supplemental_jsons), probe.content)
       IN  probe' = [probe EXCEPT !.out =
                        [k |-> "done", date |-> r.date, source |-> r.source]]
    /\ UNCHANGED <<disk, run, runs, faults, handled, moves, pass1>>

NextFallback == ApplyRecoverDate \/ ApplyProcessDate
SpecFallback == InitFallback /\ [][NextFallback]_vars

\* The source process_media_files names for a reason of the recovery helper.
SourceOfReason(reason) == IF reason = "exif" THEN "embedded" ELSE reason
BothResolved ==
    probe.fn = "fallback" /\ probe.recovered.k = "done" /\ probe.out.k = "done"

\* C40: for a media file with no primary sidecar, recover_media_with_fallback
\* and process_media_files resolve the same timestamp and the same source
\* from the same embedded value and the same set of supplemental sidecars:
\* embedded first, else the first supplemental sidecar in sorted path order
\* that has a timestamp, else unresolved.
C40_SameResolution ==
    BothResolved =>
        /\ probe.recovered.date = probe.out.date
        /\ SourceOfReason(probe.recovered.reason) = probe.out.source
====
